---- MODULE Spec2Model ----
(***************************************************************************)
(* The progressive pose generation workflow engine (src/src/lib/workflow.ts)*)
(* as a state machine: the WorkflowEngine's fields are the variables, its   *)
(* public operations the actions.  Indices (phase, pose, candidate slot)    *)
(* are 0-based as in the source; a JavaScript array is a TLA+ sequence, so  *)
(* element i of the array is element i + 1 of the sequence.                 *)
(***************************************************************************)
EXTENDS Integers, Sequences, FiniteSets, TLC

VARIABLES
    hierarchy,            \* Phase[]: each phase is the sequence of its pose ids
    currentPhaseIndex,    \* cursor
    currentPoseIndex,
    approvedSprites,      \* Map<poseId, ApprovedSpriteData>
    skippedPoses,         \* Set<poseId>
    generatedOptions,     \* GeneratedOption[]
    selectedOptionIndex,
    isGenerating,
    uiApprovedSprites,    \* the reducer's state.approvedSprites: ApprovedSprite[]
    last,                 \* the operation that ran last and what it returned
    audit,                \* whether the model carries the audit data and the gallery
    lastPrompt,           \* the prompt text of the latest generation request
    approvedKeys,         \* Array.from(approvedSprites.keys()): insertion order
    inFlight,             \* the client calls awaited by the engine
    promises,             \* generateMultiple: the state of each issued request
    settledOrder,         \* generateMultiple: the requests in completion order
    resolved,             \* generateMultiple: the array its promise resolved to
    assembled,            \* a call of buildFullPrompt: its arguments and outcome
    approving,            \* the hook's approve() calls awaiting the downsample
    saveRequests,         \* the sprites sent to addSpriteToGallery
    store,                \* the rows of the sprites table for the generation set
    lastInsertRowid,      \* the AUTOINCREMENT id of the latest row
    spriteDbIds,          \* spriteDbIdsRef: Map<poseId, row id>
    network,              \* gallery requests and responses under way
    requestFailed,        \* whether a gallery request was answered with an error
    uiPhaseIndex,         \* the reducer's state.currentPhaseIndex
    uiPoseIndex,          \* the reducer's state.currentPoseIndex
    uiSkippedPoseIds,     \* the reducer's state.skippedPoseIds: string[]
    starting,             \* the startWorkflow/resumeFromGallery call awaiting
    gemini                \* a call of callGemini / callGeminiDirect

vars == <<hierarchy, currentPhaseIndex, currentPoseIndex, approvedSprites,
          skippedPoses, generatedOptions, selectedOptionIndex, isGenerating,
          uiApprovedSprites, last, audit, lastPrompt, approvedKeys, inFlight,
          promises, settledOrder, resolved, assembled, approving, saveRequests,
          store, lastInsertRowid, spriteDbIds, network, requestFailed,
          uiPhaseIndex, uiPoseIndex, uiSkippedPoseIds, starting, gemini>>

\* No startWorkflow or resumeFromGallery call is awaiting
NoCall == [op |-> "none"]

uiCursor == <<uiPhaseIndex, uiPoseIndex>>
uiMirror == <<uiCursor, uiSkippedPoseIds>>
ui == <<uiApprovedSprites, uiMirror>>
config == <<hierarchy, audit>>
library == <<assembled, gemini>>
gallery == <<store, lastInsertRowid, spriteDbIds, network, requestFailed>>
hook == <<approving, saveRequests, gallery, starting>>
client == <<promises, settledOrder, resolved>>
requests == <<lastPrompt, inFlight>>

engineData == <<approvedSprites, skippedPoses>>
cursor == <<currentPhaseIndex, currentPoseIndex>>
candidates == <<generatedOptions, selectedOptionIndex>>

----------------------------------------------------------------------------
(* Bounds and input domains *)

\* Candidates requested per batch (the engine asks the client for 4).
MaxCandidates == 2
\* Image payloads the generation client can return.
Images == {"X", "Y"}
\* The pose hierarchies an engine is constructed with: phases are non-empty
\* and pose ids are unique across the hierarchy, as in the seeded data.
Hierarchies == { << <<"a", "b">>, <<"c">> >> }
\* A hierarchy with a first phase of three poses and a later phase of two.
RefHierarchies == { << <<"a", "b", "c">>, <<"d", "e">> >> }
\* Ids handed to removeApproval: the poses and one id of no pose.
RemoveIds == {"a", "b", "c", "zz"}
\* Arguments of jumpToPose: every index from one below to one above those of
\* the hierarchy's phases and of its longest phase.
PhaseArgs == -1..Len(hierarchy)
PoseArgs == -1..2
\* Arguments of selectOption: no slot, and every slot of a batch.
SlotArgs == -1..(MaxCandidates - 1)
\* Custom instructions typed by the user: none, blank, some.
Instructions == {"", " ", "redo"}
\* Client calls the engine awaits at the same time.
MaxInFlight == 2
\* Largest count passed to generateMultiple.
MaxCount == 3

\* Largest reference count passed to buildFullPrompt.
MaxReferences == 2
\* approve() calls suspended at their downsample at one time
MaxApproving == 1
\* Sprites a session saves to the gallery, and gallery messages under way
MaxSaves == 2
MaxNetwork == 2

Null == "null"

\* The prompt text, the key order of the approved map and what a pending call
\* captured are written by the engine and never read by its control flow.
\* A behaviour either carries them (audit) or stores Untracked in their place.
Untracked == "untracked"
Track(x) == IF audit THEN x ELSE Untracked

----------------------------------------------------------------------------
(* JavaScript Map and array helpers *)

MapHas(m, k) == k \in DOMAIN m
MapSet(m, k, v) == [x \in (DOMAIN m) \cup {k} |-> IF x = k THEN v ELSE m[x]]
MapDelete(m, k) == [x \in (DOMAIN m) \ {k} |-> m[x]]
MapSize(m) == Cardinality(DOMAIN m)
EmptyMap == [x \in {} |-> Null]

\* arr[i] ?? null
ArrayAt(arr, i) == IF i >= 0 /\ i < Len(arr) THEN arr[i + 1] ELSE Null

\* An index of an array that was never assigned
Hole == [hole |-> TRUE]

\* arr.push(v) in place of arr[i] = v
ArrayPush(arr, i, v) == Append(arr, v)

\* arr[i] = v: an index at or past the length extends the array, leaving
\* holes below it; a negative index is not an element of the array.
ArraySet(arr, i, v) ==
    IF i < 0 THEN arr
    ELSE IF i < Len(arr) THEN [arr EXCEPT ![i + 1] = v]
    ELSE arr \o [k \in 1..(i - Len(arr)) |-> Hole] \o <<v>>

----------------------------------------------------------------------------
(* Accessors *)

\* hierarchy[ph]?.poses[pi] ?? null, as a pose id
PoseAt(ph, pi) ==
    IF ph >= 0 /\ ph < Len(hierarchy)
    THEN ArrayAt(hierarchy[ph + 1], pi)
    ELSE Null

getCurrentPose == PoseAt(currentPhaseIndex, currentPoseIndex)

RECURSIVE SumLens(_)
SumLens(h) == IF h = <<>> THEN 0 ELSE Len(Head(h)) + SumLens(Tail(h))

getTotalPoseCountFromHierarchy(h) == SumLens(h)

\* The pose ids of a hierarchy
PosesOf(h) == UNION { { h[ph][pi] : pi \in 1..Len(h[ph]) } : ph \in 1..Len(h) }

\* The pose ids of a hierarchy in its order, and those of them in a set
RECURSIVE PoseSequence(_)
PoseSequence(h) == IF h = <<>> THEN <<>> ELSE Head(h) \o PoseSequence(Tail(h))

IdsInOrder(ids, h) == SelectSeq(PoseSequence(h), LAMBDA k : k \in ids)

getProgress ==
    [completed |-> MapSize(approvedSprites) + Cardinality(skippedPoses),
     total     |-> getTotalPoseCountFromHierarchy(hierarchy),
     approved  |-> MapSize(approvedSprites),
     skipped   |-> Cardinality(skippedPoses)]

isComplete == getProgress.completed >= getProgress.total

----------------------------------------------------------------------------
(* Reference selector.  A reference is the pushed image together with the  *)
(* pose id the source keeps in its `added` set.                             *)

\* addRef without the `added` check
addRefNoDedupe(refs, poseId, currentPoseId) ==
    IF poseId = currentPoseId THEN refs
    ELSE IF ~MapHas(approvedSprites, poseId) THEN refs
    ELSE Append(refs, [poseId |-> poseId, data |-> approvedSprites[poseId].imageData])

addRef(refs, poseId, currentPoseId) ==
    IF \E i \in 1..Len(refs) : refs[i].poseId = poseId THEN refs
    ELSE IF poseId = currentPoseId THEN refs
    ELSE IF ~MapHas(approvedSprites, poseId) THEN refs
    ELSE Append(refs, [poseId |-> poseId, data |-> approvedSprites[poseId].imageData])

\* The loop over the current phase running to the end of the phase
RECURSIVE AddPrecedingWholePhase(_, _)
AddPrecedingWholePhase(refs, i) ==
    IF i < Len(hierarchy[currentPhaseIndex + 1])
    THEN AddPrecedingWholePhase(addRef(refs, hierarchy[currentPhaseIndex + 1][i + 1], getCurrentPose), i + 1)
    ELSE refs

RECURSIVE AddPreceding(_, _)
AddPreceding(refs, i) ==
    IF i < currentPoseIndex
    THEN AddPreceding(addRef(refs, hierarchy[currentPhaseIndex + 1][i + 1], getCurrentPose), i + 1)
    ELSE refs

getApprovedImagesForReference ==
    LET anchorId == PoseAt(0, 0)
        withAnchor == IF anchorId # Null THEN addRef(<<>>, anchorId, getCurrentPose) ELSE <<>>
    IN  IF currentPhaseIndex >= 0 /\ currentPhaseIndex < Len(hierarchy)
        THEN AddPreceding(withAnchor, 0)
        ELSE withAnchor

----------------------------------------------------------------------------
(* Prompt assembly (src/unnamed/part_003).  A string is the sequence of its *)
(* pieces, the empty string the empty sequence; a function either returns   *)
(* a value or throws an Error with a message.                               *)

Return(value) == [throws |-> FALSE, value |-> value]
Throw(message) == [throws |-> TRUE, message |-> message]

\* promptsData.superPrompts: the templates, by game type
SUPER_PROMPTS ==
    [id \in {"TOP_DOWN_RPG", "CREATURE"} |->
        IF id = "TOP_DOWN_RPG"
        THEN <<"A sprite of exactly ", "{w}", "x", "{h}", " pixels.">>
        ELSE <<"A creature sprite.">>]

\* promptsData.posePrompts: the fragments, by pose id
POSE_PROMPTS == [id \in {"a", "b", "c", "d", "e"} |-> <<"The character in pose ", id, ".">>]

\* A pose id with no fragment
NoFragmentPose == "nofrag"

\* text.replace(piece, by): the first occurrence only
RECURSIVE Replace(_, _, _)
Replace(text, piece, by) ==
    IF text = <<>> THEN <<>>
    ELSE IF Head(text) = piece THEN <<by>> \o Tail(text)
    ELSE <<Head(text)>> \o Replace(Tail(text), piece, by)

\* customInstructions.trim()
Trim(text) == IF text = " " THEN "" ELSE text

buildSuperPrompt(gameTypeId, spriteSize) ==
    IF gameTypeId \notin DOMAIN SUPER_PROMPTS
    THEN Throw("Unknown game type")
    ELSE Return(Replace(Replace(SUPER_PROMPTS[gameTypeId], "{w}", ToString(spriteSize.w)),
                        "{h}", ToString(spriteSize.h)))

buildCharacterPrompt(characterConfig) ==
    <<"The character is ", characterConfig.name, ": ", characterConfig.description, ".">>
        \o (IF characterConfig.equipment # "" THEN <<" ", characterConfig.equipment, ".">> ELSE <<>>)
        \o (IF characterConfig.colorNotes # "" THEN <<" ", characterConfig.colorNotes, ".">> ELSE <<>>)

buildPosePrompt(pose) ==
    IF pose \notin DOMAIN POSE_PROMPTS
    THEN Throw("No prompt fragment for pose")
    ELSE Return(POSE_PROMPTS[pose])

buildReferenceContext(approvedCount) ==
    IF approvedCount <= 0 THEN <<>>
    ELSE <<"I am providing ", ToString(approvedCount),
           " reference image(s) of this same character in other poses.">>

\* parts.join(separator)
RECURSIVE Join(_, _)
Join(parts, separator) ==
    IF parts = <<>> THEN <<>>
    ELSE IF Len(parts) = 1 THEN parts[1]
    ELSE parts[1] \o <<separator>> \o Join(Tail(parts), separator)

BlankLine == "\n\n"

\* buildFullPrompt pushing the reference context whether or not it is empty
buildFullPromptAlwaysPushesContext(gameTypeId, spriteSize, characterConfig, pose, approvedCount) ==
    LET super    == buildSuperPrompt(gameTypeId, spriteSize)
        fragment == buildPosePrompt(pose)
    IN  IF super.throws THEN super
        ELSE IF fragment.throws THEN fragment
        ELSE Return(Join(<<super.value, buildCharacterPrompt(characterConfig),
                           buildReferenceContext(approvedCount), fragment.value>>, BlankLine))

buildFullPrompt(gameTypeId, spriteSize, characterConfig, pose, approvedCount) ==
    LET super      == buildSuperPrompt(gameTypeId, spriteSize)
        refContext == buildReferenceContext(approvedCount)
        fragment   == buildPosePrompt(pose)
    IN  IF super.throws THEN super
        ELSE IF fragment.throws THEN fragment
        ELSE Return(Join(<<super.value, buildCharacterPrompt(characterConfig)>>
                           \o (IF refContext # <<>> THEN <<refContext>> ELSE <<>>)
                           \o <<fragment.value>>, BlankLine))

\* The engine's game type and sprite size, and the character the hook passes
gameTypeId == "TOP_DOWN_RPG"
spriteSize == [w |-> 16, h |-> 24]
characterConfig == [name |-> "Hero", description |-> "a knight", equipment |-> "", colorNotes |-> ""]

\* The call made with the size of the approved map as its count
AssembleCurrentCountsApproved ==
    buildFullPrompt(gameTypeId, spriteSize, characterConfig, getCurrentPose,
                    MapSize(approvedSprites))

\* The call both generateCurrentPose and regenerateOne make
AssembleCurrent ==
    buildFullPrompt(gameTypeId, spriteSize, characterConfig, getCurrentPose,
                    Len(getApprovedImagesForReference))

\* The prompt generateCurrentPose and regenerateOne assemble for the current pose
CurrentPrompt(customInstructions) ==
    LET prompt == AssembleCurrent.value
    IN  IF Trim(customInstructions) # ""
        THEN prompt \o <<BlankLine, "Additional instructions: ", Trim(customInstructions)>>
        ELSE prompt

\* What a call holds across its await: the slot it will write (regenerateOne),
\* the pose, the prompt and the references it sent.
Request(kind, slot, customInstructions) ==
    [kind   |-> kind,
     slot   |-> slot,
     pose   |-> Track(getCurrentPose),
     prompt |-> Track(CurrentPrompt(customInstructions)),
     refs   |-> Track(getApprovedImagesForReference)]

\* downsampleImage(ref.data, ref.mimeType, REF_MAX_DIM): an image within the
\* reference size is sent as it is, a larger one re-encoded at that size
Shrink(img) == IF img = "X" THEN "X" ELSE "Y@256"

\* The body generateImage posts to /api/generate for a request
RequestBody(req) ==
    [prompt          |-> req.prompt,
     referenceImages |-> [i \in 1..Len(req.refs) |-> Shrink(req.refs[i].data)]]

----------------------------------------------------------------------------
(* Candidates *)

ImageOption(img) == [image |-> img]
ErrorOption(msg) == [error |-> msg]
OptionValues == {ImageOption(img) : img \in Images} \cup {ErrorOption("Failed")}

\* A candidate with the request that produced it
Produced(option, req) == option @@ [from |-> Track(req)]

\* option?.image is present
HasImage(i) ==
    /\ i >= 0
    /\ i < Len(generatedOptions)
    /\ "image" \in DOMAIN generatedOptions[i + 1]

\* generateMultiple's promise: no call made, awaiting allSettled, resolved
NotCalled == [status |-> "none", value |-> <<>>]
NotResolved == [status |-> "pending", value |-> <<>>]
ResolvedTo(array) == [status |-> "fulfilled", value |-> array]

\* buildFullPrompt: not called
NotAssembled == [called |-> FALSE]

\* callGemini: not called
NotCalling == [state |-> "idle", via |-> "none", retries |-> 0, attempts |-> 0, seen |-> <<>>]

\* note: what the operation found before it acted
Ret(op, ok, pose, data, note) ==
    [op |-> op, ok |-> ok, pose |-> pose, data |-> data, note |-> note]

\* op is a call of approveSelected that stored a record
Approved(op) == op.op = "approveSelected" /\ op.ok

----------------------------------------------------------------------------
(* Initial state: a constructed engine *)

Init ==
    /\ hierarchy \in Hierarchies
    /\ currentPhaseIndex = 0
    /\ currentPoseIndex = 0
    /\ approvedSprites = EmptyMap
    /\ skippedPoses = {}
    /\ generatedOptions = <<>>
    /\ selectedOptionIndex = -1
    /\ isGenerating = FALSE
    /\ uiApprovedSprites = <<>>
    /\ last = Ret("constructor", TRUE, Null, Null, "")
    /\ audit = FALSE
    /\ lastPrompt = Track(<<>>)
    /\ approvedKeys = Track(<<>>)
    /\ inFlight = {}
    /\ promises = <<>>
    /\ settledOrder = <<>>
    /\ resolved = NotCalled
    /\ assembled = NotAssembled
    /\ approving = <<>>
    /\ saveRequests = {}
    /\ store = Track({})
    /\ lastInsertRowid = Track(0)
    /\ spriteDbIds = Track(EmptyMap)
    /\ network = Track(<<>>)
    /\ requestFailed = Track(FALSE)
    /\ uiPhaseIndex = currentPhaseIndex
    /\ uiPoseIndex = currentPoseIndex
    /\ uiSkippedPoseIds = <<>>
    /\ starting = NoCall
    /\ gemini = NotCalling

----------------------------------------------------------------------------
(* Generation *)

\* generateCurrentPose leaving the selection of the previous batch in place
GenerateStartKeepsSelection(customInstructions) ==
    /\ ~isGenerating
    /\ IF getCurrentPose = Null
       THEN /\ last' = Ret("generateCurrentPose", FALSE, Null, "No current pose", "")
            /\ UNCHANGED <<isGenerating, generatedOptions, selectedOptionIndex, requests>>
       ELSE IF AssembleCurrent.throws
       THEN /\ generatedOptions' = <<>>
            /\ UNCHANGED selectedOptionIndex
            /\ last' = Ret("generateCurrentPose", FALSE, getCurrentPose, AssembleCurrent.message, "")
            /\ UNCHANGED <<isGenerating, requests>>
       ELSE /\ isGenerating' = TRUE
            /\ generatedOptions' = <<>>
            /\ UNCHANGED selectedOptionIndex
            /\ lastPrompt' = Track(CurrentPrompt(customInstructions))
            /\ inFlight' = inFlight \cup {Request("all", 0, customInstructions)}
            /\ last' = Ret("generateCurrentPose", TRUE, getCurrentPose, "pending",
                           IF generatedOptions # <<>> /\ selectedOptionIndex >= 0
                           THEN "cleared" ELSE "")
    /\ UNCHANGED <<ui, hook, library, client, config, cursor, engineData, approvedKeys>>

\* generateCurrentPose up to the call of the client
generateCurrentPoseToAwait(customInstructions) ==
    /\ IF getCurrentPose = Null
       THEN /\ last' = Ret("generateCurrentPose", FALSE, Null, "No current pose", "")
            /\ UNCHANGED <<isGenerating, generatedOptions, selectedOptionIndex, requests>>
       ELSE IF AssembleCurrent.throws
       THEN /\ generatedOptions' = <<>>
            /\ selectedOptionIndex' = -1
            /\ last' = Ret("generateCurrentPose", FALSE, getCurrentPose, AssembleCurrent.message, "")
            /\ UNCHANGED <<isGenerating, requests>>
       ELSE /\ isGenerating' = TRUE
            /\ generatedOptions' = <<>>
            /\ selectedOptionIndex' = -1
            /\ lastPrompt' = Track(CurrentPrompt(customInstructions))
            /\ inFlight' = inFlight \cup {Request("all", 0, customInstructions)}
            /\ last' = Ret("generateCurrentPose", TRUE, getCurrentPose, "pending",
                           IF generatedOptions # <<>> /\ selectedOptionIndex >= 0
                           THEN "cleared" ELSE "")
    /\ UNCHANGED <<ui, hook, library, config, cursor, engineData, approvedKeys>>

\* generateCurrentPose up to its await; the hook's generate() starts it only
\* while no call is in flight.
GenerateStart(customInstructions) ==
    /\ ~isGenerating
    /\ generateCurrentPoseToAwait(customInstructions)
    /\ UNCHANGED client

\* generateCurrentPose from its await on: the client's promise fulfilled with
\* an array, which becomes the candidate list, or rejected, which the call
\* rethrows; the finally block runs either way.
generateCurrentPoseAfterAwait(outcome) ==
    /\ isGenerating
    /\ \E req \in {r \in inFlight : r.kind = "all"} :
          /\ inFlight' = inFlight \ {req}
          /\ IF outcome.throws
             THEN /\ UNCHANGED generatedOptions
                  /\ last' = Ret("generateCurrentPose.resolved", FALSE, Null, outcome.message, "")
             ELSE /\ generatedOptions' =
                        [i \in 1..Len(outcome.value) |-> Produced(outcome.value[i], req)]
                  /\ last' = Ret("generateCurrentPose.resolved", TRUE, Null, Null, "")
    /\ isGenerating' = FALSE
    /\ UNCHANGED <<ui, hook, library, config, cursor, engineData, selectedOptionIndex, lastPrompt, approvedKeys>>

\* generateMultiple settles: one entry per requested candidate, in request order.
GenerateComplete ==
    /\ \E results \in [1..MaxCandidates -> OptionValues] :
          generateCurrentPoseAfterAwait(Return(results))
    /\ UNCHANGED client

\* regenerateOne up to its await
regenerateOne(index, customInstructions) ==
    /\ Cardinality(inFlight) < MaxInFlight
    /\ IF getCurrentPose = Null
       THEN /\ last' = Ret("regenerateOne", FALSE, Null, "No current pose", "")
            /\ UNCHANGED requests
       ELSE IF AssembleCurrent.throws
       THEN /\ last' = Ret("regenerateOne", FALSE, getCurrentPose, AssembleCurrent.message, "")
            /\ UNCHANGED requests
       ELSE /\ lastPrompt' = Track(CurrentPrompt(customInstructions))
            /\ inFlight' = inFlight \cup {Request("one", index, customInstructions)}
            /\ last' = Ret("regenerateOne", TRUE, getCurrentPose, "pending", "")
    /\ UNCHANGED <<ui, hook, library, client, config, cursor, engineData, candidates, isGenerating, approvedKeys>>

\* regenerateOne keeping its index in a field the later call overwrites
regenerateOneSettlesSharedIndex ==
    /\ \E req \in {r \in inFlight : r.kind = "one"}, result \in OptionValues :
          LET latest == CHOOSE r \in {o \in inFlight : o.kind = "one"} :
                            \A o \in {o \in inFlight : o.kind = "one"} : o.slot <= r.slot
          IN  /\ generatedOptions' = ArraySet(generatedOptions, latest.slot, Produced(result, req))
              /\ inFlight' = inFlight \ {req}
              /\ last' = Ret("regenerateOne.settled", "image" \in DOMAIN result, Null, Null,
                             IF \E other \in inFlight \ {req} : other.kind = "one"
                             THEN "first of two"
                             ELSE IF last.op = "regenerateOne.settled" /\ last.note = "first of two"
                             THEN "second of two" ELSE "")
    /\ UNCHANGED <<ui, hook, library, client, config, cursor, engineData, selectedOptionIndex, isGenerating,
                   lastPrompt, approvedKeys>>

\* generateImage settles: its result, or the error entry of the catch block,
\* is written to the slot the call was made for.
regenerateOneSettles ==
    /\ \E req \in {r \in inFlight : r.kind = "one"}, result \in OptionValues :
          /\ generatedOptions' = ArraySet(generatedOptions, req.slot, Produced(result, req))
          /\ inFlight' = inFlight \ {req}
          /\ last' = Ret("regenerateOne.settled", "image" \in DOMAIN result, Null, Null,
                         IF \E other \in inFlight \ {req} : other.kind = "one"
                         THEN "first of two"
                         ELSE IF last.op = "regenerateOne.settled" /\ last.note = "first of two"
                         THEN "second of two" ELSE "")
    /\ UNCHANGED <<ui, hook, library, client, config, cursor, engineData, selectedOptionIndex, isGenerating,
                   lastPrompt, approvedKeys>>

----------------------------------------------------------------------------
(* Selection and approval *)

selectOption(index) ==
    /\ selectedOptionIndex' = index
    /\ last' = Ret("selectOption", index >= 0 /\ index < Len(generatedOptions), Null, Null, "")
    /\ UNCHANGED <<ui, hook, library, client, config, cursor, engineData, generatedOptions, isGenerating, requests, approvedKeys>>

\* approveSelected passes its two early returns
CanApprove == selectedOptionIndex >= 0 /\ HasImage(selectedOptionIndex)

\* The record approveSelected builds
ApprovedData ==
    [imageData        |-> generatedOptions[selectedOptionIndex + 1].image,
     prompt           |-> lastPrompt,
     referenceImageIds |-> approvedKeys]

\* The keys of the approved map, in insertion order, after set(poseId, ...)
KeysAfterSet(poseId) ==
    Track(IF MapHas(approvedSprites, poseId) THEN approvedKeys ELSE Append(approvedKeys, poseId))

\* approveSelected storing the record under the anchor pose's id
approveSelectedWrongKey ==
    /\ IF ~CanApprove
       THEN /\ last' = Ret("approveSelected", FALSE, Null, Null, "")
            /\ UNCHANGED approvedSprites
       ELSE /\ approvedSprites' = MapSet(approvedSprites, PoseAt(0, 0), ApprovedData)
            /\ last' = Ret("approveSelected", TRUE, getCurrentPose, ApprovedData.imageData,
                           IF MapHas(approvedSprites, getCurrentPose) THEN "replaced" ELSE "added")
    /\ approvedKeys' = IF CanApprove THEN KeysAfterSet(PoseAt(0, 0)) ELSE approvedKeys
    /\ UNCHANGED <<ui, hook, library, client, config, cursor, skippedPoses, candidates, isGenerating, requests>>

\* approveSelected testing `!option` where the source tests `!option?.image`
approveSelectedStoresError ==
    /\ IF ~(selectedOptionIndex >= 0 /\ selectedOptionIndex < Len(generatedOptions))
       THEN /\ last' = Ret("approveSelected", FALSE, Null, Null, "")
            /\ UNCHANGED approvedSprites
       ELSE LET img == IF HasImage(selectedOptionIndex)
                       THEN generatedOptions[selectedOptionIndex + 1].image
                       ELSE "undefined"
            IN  /\ approvedSprites' = MapSet(approvedSprites, getCurrentPose,
                                              [imageData |-> img, prompt |-> lastPrompt,
                                               referenceImageIds |-> approvedKeys])
                /\ last' = Ret("approveSelected", TRUE, getCurrentPose, img,
                               IF MapHas(approvedSprites, getCurrentPose) THEN "replaced" ELSE "added")
    /\ approvedKeys' = IF selectedOptionIndex >= 0 /\ selectedOptionIndex < Len(generatedOptions)
                       THEN KeysAfterSet(getCurrentPose) ELSE approvedKeys
    /\ UNCHANGED <<ui, hook, library, client, config, cursor, skippedPoses, candidates, isGenerating, requests>>

approveSelected ==
    /\ IF ~CanApprove
       THEN /\ last' = Ret("approveSelected", FALSE, Null, Null, "")
            /\ UNCHANGED approvedSprites
       ELSE IF getCurrentPose = Null
       THEN /\ last' = Ret("approveSelected", FALSE, Null, "TypeError", "")
            /\ UNCHANGED approvedSprites
       ELSE /\ approvedSprites' = MapSet(approvedSprites, getCurrentPose, ApprovedData)
            /\ last' = Ret("approveSelected", TRUE, getCurrentPose, ApprovedData.imageData,
                           IF MapHas(approvedSprites, getCurrentPose) THEN "replaced" ELSE "added")
    /\ approvedKeys' = IF CanApprove /\ getCurrentPose # Null
                       THEN KeysAfterSet(getCurrentPose) ELSE approvedKeys
    /\ UNCHANGED <<ui, hook, library, client, config, cursor, skippedPoses, candidates, isGenerating, requests>>

\* skipCurrentPose deleting the pose's approval as it skips
skipCurrentPoseClearsApproval ==
    /\ skippedPoses' = IF getCurrentPose # Null
                       THEN skippedPoses \cup {getCurrentPose}
                       ELSE skippedPoses
    /\ approvedSprites' = MapDelete(approvedSprites, getCurrentPose)
    /\ last' = Ret("skipCurrentPose", TRUE, getCurrentPose, Null,
                   IF getCurrentPose \in skippedPoses THEN "already" ELSE "")
    /\ UNCHANGED <<ui, hook, library, client, config, cursor, candidates, isGenerating, requests, approvedKeys>>

skipCurrentPose ==
    /\ skippedPoses' = IF getCurrentPose # Null
                       THEN skippedPoses \cup {getCurrentPose}
                       ELSE skippedPoses
    /\ last' = Ret("skipCurrentPose", TRUE, getCurrentPose, Null,
                   IF getCurrentPose \in skippedPoses THEN "already" ELSE "")
    /\ UNCHANGED <<ui, hook, library, client, config, cursor, approvedSprites, candidates, isGenerating, requests, approvedKeys>>

\* removeApproval taking the pose out of the skipped set as well
removeApprovalClearsSkip(poseId) ==
    /\ approvedSprites' = MapDelete(approvedSprites, poseId)
    /\ skippedPoses' = skippedPoses \ {poseId}
    /\ last' = IF MapHas(approvedSprites, poseId)
               THEN Ret("removeApproval", TRUE, Null, approvedSprites[poseId],
                        IF Approved(last) /\ last.pose = poseId THEN "just approved" ELSE "")
               ELSE Ret("removeApproval", FALSE, Null, Null, "")
    /\ approvedKeys' = Track(SelectSeq(approvedKeys, LAMBDA k : k # poseId))
    /\ UNCHANGED <<ui, hook, library, client, config, cursor, candidates, isGenerating, requests>>

removeApproval(poseId) ==
    /\ approvedSprites' = MapDelete(approvedSprites, poseId)
    /\ last' = IF MapHas(approvedSprites, poseId)
               THEN Ret("removeApproval", TRUE, Null, approvedSprites[poseId],
                        IF Approved(last) /\ last.pose = poseId THEN "just approved" ELSE "")
               ELSE Ret("removeApproval", FALSE, Null, Null, "")
    /\ approvedKeys' = Track(SelectSeq(approvedKeys, LAMBDA k : k # poseId))
    /\ UNCHANGED <<ui, hook, library, client, config, cursor, skippedPoses, candidates, isGenerating, requests>>

----------------------------------------------------------------------------
(* Navigation *)

Unresolved(poseId) == ~MapHas(approvedSprites, poseId) /\ poseId \notin skippedPoses

DoneResult == [done |-> TRUE, ph |-> -1, pi |-> -1, pose |-> Null]
Found(ph, pi) == [done |-> FALSE, ph |-> ph, pi |-> pi, pose |-> hierarchy[ph + 1][pi + 1]]

\* advanceToNextPose giving up at the end of the current phase
RECURSIVE AdvanceScanOnePhase(_, _)
AdvanceScanOnePhase(ph, pi) ==
    IF ~(ph < Len(hierarchy)) THEN DoneResult
    ELSE IF pi + 1 >= Len(hierarchy[ph + 1]) THEN DoneResult
    ELSE IF Unresolved(hierarchy[ph + 1][pi + 2]) THEN Found(ph, pi + 1)
    ELSE AdvanceScanOnePhase(ph, pi + 1)

\* The while loop of advanceToNextPose, entered with the loop variables (ph, pi).
RECURSIVE AdvanceScan(_, _)
AdvanceScan(ph, pi) ==
    IF ~(ph < Len(hierarchy)) THEN DoneResult
    ELSE LET wrap == pi + 1 >= Len(hierarchy[ph + 1])
             ph2  == IF wrap THEN ph + 1 ELSE ph
             pi2  == IF wrap THEN 0 ELSE pi + 1
         IN  IF wrap /\ ph2 >= Len(hierarchy) THEN DoneResult
             ELSE IF Unresolved(hierarchy[ph2 + 1][pi2 + 1]) THEN Found(ph2, pi2)
             ELSE AdvanceScan(ph2, pi2)

\* advanceToNextUnapprovedPose testing the approved map only
RECURSIVE FullScanIgnoringSkips(_, _)
FullScanIgnoringSkips(ph, pi) ==
    IF ~(ph < Len(hierarchy)) THEN DoneResult
    ELSE IF ~(pi < Len(hierarchy[ph + 1])) THEN FullScanIgnoringSkips(ph + 1, 0)
    ELSE IF ~MapHas(approvedSprites, hierarchy[ph + 1][pi + 1]) THEN Found(ph, pi)
    ELSE FullScanIgnoringSkips(ph, pi + 1)

\* The nested for loops of advanceToNextUnapprovedPose, from (ph, pi).
RECURSIVE FullScan(_, _)
FullScan(ph, pi) ==
    IF ~(ph < Len(hierarchy)) THEN DoneResult
    ELSE IF ~(pi < Len(hierarchy[ph + 1])) THEN FullScan(ph + 1, 0)
    ELSE IF Unresolved(hierarchy[ph + 1][pi + 1]) THEN Found(ph, pi)
    ELSE FullScan(ph, pi + 1)

\* The advance operations clearing the candidates before they scan
MoveToAlwaysClears(op, r) ==
    /\ IF r.done
       THEN UNCHANGED cursor
       ELSE /\ currentPhaseIndex' = r.ph
            /\ currentPoseIndex' = r.pi
    /\ generatedOptions' = <<>>
    /\ selectedOptionIndex' = -1
    /\ last' = Ret(op, ~r.done, r.pose, Null, "")
    /\ UNCHANGED <<ui, hook, library, client, config, engineData, isGenerating, requests, approvedKeys>>

\* What both advance operations do with the scan's result.
MoveTo(op, r) ==
    /\ IF r.done
       THEN UNCHANGED <<cursor, candidates>>
       ELSE /\ currentPhaseIndex' = r.ph
            /\ currentPoseIndex' = r.pi
            /\ generatedOptions' = <<>>
            /\ selectedOptionIndex' = -1
    /\ last' = Ret(op, ~r.done, r.pose, Null,
                   IF r.done THEN ""
                   ELSE IF r.ph < currentPhaseIndex
                           \/ (r.ph = currentPhaseIndex /\ r.pi < currentPoseIndex)
                   THEN "backward" ELSE "forward")
    /\ UNCHANGED <<ui, hook, library, client, config, engineData, isGenerating, requests, approvedKeys>>

advanceToNextPose ==
    MoveTo("advanceToNextPose", AdvanceScan(currentPhaseIndex, currentPoseIndex))

advanceToNextUnapprovedPose ==
    MoveTo("advanceToNextUnapprovedPose", FullScan(0, 0))

\* goToPreviousPose stopping at the first pose of every phase
PreviousCursorNoWrap ==
    LET pi == currentPoseIndex - 1
    IN  IF pi < 0 THEN <<currentPhaseIndex, 0>> ELSE <<currentPhaseIndex, pi>>

\* The cursor goToPreviousPose computes.
PreviousCursor ==
    LET pi == currentPoseIndex - 1
        ph == currentPhaseIndex - 1
    IN  IF pi < 0
        THEN IF ph < 0 THEN <<0, 0>> ELSE <<ph, Len(hierarchy[ph + 1]) - 1>>
        ELSE <<currentPhaseIndex, pi>>

goToPreviousPose ==
    /\ currentPhaseIndex' = PreviousCursor[1]
    /\ currentPoseIndex' = PreviousCursor[2]
    /\ generatedOptions' = <<>>
    /\ selectedOptionIndex' = -1
    /\ last' = Ret("goToPreviousPose", TRUE, PoseAt(PreviousCursor[1], PreviousCursor[2]), Null,
                   IF currentPoseIndex > 0 THEN ""
                   ELSE IF currentPhaseIndex > 0 THEN "wrapped" ELSE "clamped")
    /\ UNCHANGED <<ui, hook, library, client, config, engineData, isGenerating, requests, approvedKeys>>

\* jumpToPose without the test for a negative pose index
JumpInRangeNoLowerBound(phaseIndex, poseIndex) ==
    /\ ~(phaseIndex < 0 \/ phaseIndex >= Len(hierarchy))
    /\ ~(poseIndex >= Len(hierarchy[phaseIndex + 1]))

\* jumpToPose comparing the pose index with > where the source has >=
JumpInRangeOffByOne(phaseIndex, poseIndex) ==
    /\ ~(phaseIndex < 0 \/ phaseIndex >= Len(hierarchy))
    /\ ~(poseIndex < 0 \/ poseIndex > Len(hierarchy[phaseIndex + 1]))

\* jumpToPose passes its bounds checks
JumpInRange(phaseIndex, poseIndex) ==
    /\ ~(phaseIndex < 0 \/ phaseIndex >= Len(hierarchy))
    /\ ~(poseIndex < 0 \/ poseIndex >= Len(hierarchy[phaseIndex + 1]))

jumpToPose(phaseIndex, poseIndex) ==
    /\ IF JumpInRange(phaseIndex, poseIndex)
       THEN /\ currentPhaseIndex' = phaseIndex
            /\ currentPoseIndex' = poseIndex
            /\ generatedOptions' = <<>>
            /\ selectedOptionIndex' = -1
            /\ last' = Ret("jumpToPose", TRUE, PoseAt(phaseIndex, poseIndex), Null, "")
       ELSE /\ last' = Ret("jumpToPose", FALSE, Null, Null, "")
            /\ UNCHANGED <<cursor, candidates>>
    /\ UNCHANGED <<ui, hook, library, client, config, engineData, isGenerating, requests, approvedKeys>>

----------------------------------------------------------------------------
(* The engine driven by any caller: batches, selection, approval, skipping, *)
(* removal and navigation in any order.                                     *)

Next ==
    \/ \E customInstructions \in Instructions : GenerateStart(customInstructions)
    \/ GenerateComplete
    \/ \E index \in SlotArgs : selectOption(index)
    \/ approveSelected
    \/ skipCurrentPose
    \/ \E poseId \in RemoveIds : removeApproval(poseId)
    \/ advanceToNextPose
    \/ advanceToNextUnapprovedPose
    \/ goToPreviousPose
    \/ \E phaseIndex \in PhaseArgs, poseIndex \in PoseArgs : jumpToPose(phaseIndex, poseIndex)

Spec == Init /\ [][Next]_vars

----------------------------------------------------------------------------
(* The reducer's approvedSprites list (src/src/context/WorkflowContext.tsx) *)

Sprite(poseId, img) == [poseId |-> poseId, imageData |-> img]

WithoutPose(list, poseId) == SelectSeq(list, LAMBDA s : s.poseId # poseId)

\* POSE_APPROVED appending without filtering the pose's earlier entry
PoseApprovedAppendOnly(list, sprite) == Append(list, sprite)

\* case 'POSE_APPROVED'
PoseApprovedList(list, sprite) ==
    Append(WithoutPose(list, sprite.poseId), sprite)

\* case 'SPRITE_REMOVED'
SpriteRemovedList(list, poseId) ==
    WithoutPose(list, poseId)

dispatchPoseApproved(sprite) ==
    /\ uiApprovedSprites' = PoseApprovedList(uiApprovedSprites, sprite)
    /\ UNCHANGED uiMirror
    /\ last' = Ret("POSE_APPROVED", TRUE, Null, Null,
                   IF \E i \in 1..Len(uiApprovedSprites) : uiApprovedSprites[i].poseId = sprite.poseId
                   THEN "replaced" ELSE "added")
    /\ UNCHANGED <<hook, library, client, config, cursor, engineData, candidates, isGenerating, requests, approvedKeys>>

dispatchSpriteRemoved(poseId) ==
    /\ uiApprovedSprites' = SpriteRemovedList(uiApprovedSprites, poseId)
    /\ UNCHANGED uiMirror
    /\ last' = Ret("SPRITE_REMOVED", TRUE, Null, Null, "")
    /\ UNCHANGED <<hook, library, client, config, cursor, engineData, candidates, isGenerating, requests, approvedKeys>>

\* Approval of the first pose, over and over, by the engine, and the reducer
\* fed POSE_APPROVED and SPRITE_REMOVED with any sprite and pose id.
NextApprove ==
    \/ \E customInstructions \in Instructions : GenerateStart(customInstructions)
    \/ GenerateComplete
    \/ \E index \in SlotArgs : selectOption(index)
    \/ approveSelected
    \/ \E poseId \in RemoveIds \ {"zz"}, img \in Images : dispatchPoseApproved(Sprite(poseId, img))
    \/ \E poseId \in RemoveIds : dispatchSpriteRemoved(poseId)

SpecApprove == Init /\ [][NextApprove]_vars

----------------------------------------------------------------------------
(* The handlers of the useWorkflow hook (src/src/hooks/useWorkflow.ts).  A  *)
(* handler runs to its end, or to its next await, in one step; the engine   *)
(* calls it makes are part of the step.  `last` records the handler, the    *)
(* pose it acted on, the action it dispatched and the branch it took.       *)

\* downsampleImage: an image within the stored size is returned as it is, a
\* larger one re-encoded at the stored size
Downsample(img) == IF img = "Y" THEN "Y@512" ELSE img

\* The candidate list and selection the navigation handlers leave on a pose:
\* the pose's approved sprite in slot 0, selected, when it has one
ShownOptions(poseId, otherwise) ==
    IF MapHas(approvedSprites, poseId)
    THEN <<ImageOption(approvedSprites[poseId].imageData)>>
    ELSE otherwise

ShownSelection(poseId, otherwise) ==
    IF MapHas(approvedSprites, poseId) THEN 0 ELSE otherwise

\* POSE_SKIPPED: [...new Set([...state.skippedPoseIds, action.poseId])]
PoseSkippedList(ids, poseId) ==
    IF \E i \in 1..Len(ids) : ids[i] = poseId THEN ids ELSE Append(ids, poseId)

\* skip(): skipCurrentPose and POSE_SKIPPED, then advanceToNextPose on the
\* engine it changed and POSE_NAVIGATED with the engine's cursor
skip ==
    LET pose == getCurrentPose
    IN  /\ skippedPoses' = IF pose # Null THEN skippedPoses \cup {pose} ELSE skippedPoses
        /\ uiSkippedPoseIds' = IF pose # Null THEN PoseSkippedList(uiSkippedPoseIds, pose)
                                ELSE uiSkippedPoseIds
        /\ UNCHANGED <<approvedSprites, config>>
        /\ \E ph \in {currentPhaseIndex}, pi \in {currentPoseIndex} :
              LET r == AdvanceScan(ph, pi)'
              IN  IF r.done
                  THEN /\ UNCHANGED <<cursor, candidates, uiCursor>>
                       /\ last' = Ret("skip", TRUE, pose, "WORKFLOW_COMPLETE", "")
                  ELSE /\ currentPhaseIndex' = r.ph
                       /\ currentPoseIndex' = r.pi
                       /\ generatedOptions' = <<>>
                       /\ selectedOptionIndex' = -1
                       /\ uiPhaseIndex' = r.ph
                       /\ uiPoseIndex' = r.pi
                       /\ last' = Ret("skip", TRUE, pose, "POSE_NAVIGATED", "")
        /\ UNCHANGED <<uiApprovedSprites, hook, library, client, isGenerating, requests,
                       approvedKeys>>

\* The position nextPose() browses to once the workflow is complete
BrowseCursor ==
    LET step == IF currentPoseIndex + 1 >= Len(hierarchy[currentPhaseIndex + 1])
                THEN <<currentPhaseIndex + 1, 0>>
                ELSE <<currentPhaseIndex, currentPoseIndex + 1>>
    IN  IF step[1] >= Len(hierarchy) THEN <<0, 0>> ELSE step

\* nextPose(): the forward scan; when it is done, the browse step if
\* isComplete(), the scan from the beginning if not
nextPose ==
    LET forward == AdvanceScan(currentPhaseIndex, currentPoseIndex)
        full    == FullScan(0, 0)
    IN  /\ IF ~forward.done
           THEN /\ currentPhaseIndex' = forward.ph
                /\ currentPoseIndex' = forward.pi
                /\ generatedOptions' = <<>>
                /\ selectedOptionIndex' = -1
                /\ uiPhaseIndex' = forward.ph
                /\ uiPoseIndex' = forward.pi
                /\ last' = Ret("nextPose", TRUE, forward.pose, "POSE_NAVIGATED", "forward")
           ELSE IF isComplete
           THEN LET to == Found(BrowseCursor[1], BrowseCursor[2])
                IN  /\ currentPhaseIndex' = to.ph
                    /\ currentPoseIndex' = to.pi
                    /\ generatedOptions' = ShownOptions(to.pose, <<>>)
                    /\ selectedOptionIndex' = ShownSelection(to.pose, -1)
                    /\ uiPhaseIndex' = BrowseCursor[1]
                    /\ uiPoseIndex' = BrowseCursor[2]
                    /\ last' = Ret("nextPose", TRUE, to.pose, "POSE_NAVIGATED", "browse")
           ELSE IF full.done
           THEN /\ UNCHANGED <<cursor, candidates, uiCursor>>
                /\ last' = Ret("nextPose", TRUE, Null, "WORKFLOW_COMPLETE", "")
           ELSE /\ currentPhaseIndex' = full.ph
                /\ currentPoseIndex' = full.pi
                /\ generatedOptions' = <<>>
                /\ selectedOptionIndex' = -1
                /\ uiPhaseIndex' = full.ph
                /\ uiPoseIndex' = full.pi
                /\ last' = Ret("nextPose", TRUE, full.pose, "POSE_NAVIGATED", "wrap")
        /\ UNCHANGED <<uiApprovedSprites, uiSkippedPoseIds, hook, library, client, config,
                       engineData, isGenerating, requests, approvedKeys>>

\* prevPose(): goToPreviousPose, then the approved sprite of the pose shown
prevPose ==
    LET pose == PoseAt(PreviousCursor[1], PreviousCursor[2])
    IN  /\ currentPhaseIndex' = PreviousCursor[1]
        /\ currentPoseIndex' = PreviousCursor[2]
        /\ generatedOptions' = ShownOptions(pose, <<>>)
        /\ selectedOptionIndex' = ShownSelection(pose, -1)
        /\ uiPhaseIndex' = PreviousCursor[1]
        /\ uiPoseIndex' = PreviousCursor[2]
        /\ last' = Ret("prevPose", TRUE, pose, "POSE_NAVIGATED", "")
        /\ UNCHANGED <<uiApprovedSprites, uiSkippedPoseIds, hook, library, client, config,
                       engineData, isGenerating, requests, approvedKeys>>

\* jumpToPose(phaseIndex, poseIndex) of the hook: the engine's jumpToPose,
\* whose result it does not look at, then the approved sprite of the engine's
\* current pose shown
jumpToPoseHook(phaseIndex, poseIndex) ==
    LET moved == JumpInRange(phaseIndex, poseIndex)
        pose  == IF moved THEN PoseAt(phaseIndex, poseIndex) ELSE getCurrentPose
    IN  /\ currentPhaseIndex' = IF moved THEN phaseIndex ELSE currentPhaseIndex
        /\ currentPoseIndex' = IF moved THEN poseIndex ELSE currentPoseIndex
        /\ generatedOptions' = ShownOptions(pose, IF moved THEN <<>> ELSE generatedOptions)
        /\ selectedOptionIndex' = ShownSelection(pose, IF moved THEN -1 ELSE selectedOptionIndex)
        /\ uiPhaseIndex' = phaseIndex
        /\ uiPoseIndex' = poseIndex
        /\ last' = Ret("jumpToPose", moved, pose, "POSE_NAVIGATED", "")
        /\ UNCHANGED <<uiApprovedSprites, uiSkippedPoseIds, hook, library, client, config,
                       engineData, isGenerating, requests, approvedKeys>>

\* An approve() call suspended at `await downsampleImage`: the pose id it
\* captured, the record approveSelected returned, where the cursor was, and
\* the engine it took from engineRef
ApproveCall(poseId, data) ==
    [poseId |-> poseId, data |-> data, invokedAt |-> cursor, engine |-> "current"]

\* The suspended calls once the i-th has resumed
WithoutCall(calls, i) == SubSeq(calls, 1, i - 1) \o SubSeq(calls, i + 1, Len(calls))

\* approve() up to its await
approve ==
    /\ IF ~CanApprove
       THEN /\ last' = Ret("approve", FALSE, getCurrentPose, Null, "No image selected to approve.")
            /\ UNCHANGED <<approvedSprites, approvedKeys, approving>>
       ELSE /\ approvedSprites' = MapSet(approvedSprites, getCurrentPose, ApprovedData)
            /\ approvedKeys' = KeysAfterSet(getCurrentPose)
            /\ approving' = Append(approving, ApproveCall(getCurrentPose, ApprovedData))
            /\ last' = Ret("approve", TRUE, getCurrentPose, ApprovedData.imageData,
                           IF MapHas(approvedSprites, getCurrentPose) THEN "replaced" ELSE "added")
    /\ UNCHANGED <<ui, saveRequests, starting, gallery, library, client, config, cursor, skippedPoses,
                   candidates, isGenerating, requests>>

\* The gallery entry createGallery gave the session at its start
generationSetId == "1"

\* The gallery requests of the data client and the server's answers
PostSprite(poseId) == [kind |-> "POST", poseId |-> poseId]
PostAnswer(poseId, id) == [kind |-> "POST.200", poseId |-> poseId, id |-> id]
DeleteSprite(id) == [kind |-> "DELETE", id |-> id]
GetEntry(poseId) == [kind |-> "GET", poseId |-> poseId]
GetAnswer(poseId, sprites) == [kind |-> "GET.200", poseId |-> poseId, sprites |-> sprites]

\* What approve() stores after the downsample
Downsized(data) == [data EXCEPT !.imageData = Downsample(@)]

\* approve() resuming with the pose that is current when it resumes
approveResumesAtCurrentPose ==
    /\ \E i \in 1..Len(approving) :
        LET call == approving[i]
        IN
          /\ approvedSprites' = MapSet(approvedSprites, getCurrentPose, Downsized(call.data))
          /\ approvedKeys' = KeysAfterSet(getCurrentPose)
          /\ uiApprovedSprites' = PoseApprovedList(uiApprovedSprites,
                                       Sprite(getCurrentPose, Downsized(call.data).imageData))
          /\ saveRequests' = IF generationSetId # Null
                             THEN saveRequests \cup {Sprite(getCurrentPose, Downsized(call.data).imageData)}
                             ELSE saveRequests
          /\ network' = IF generationSetId # Null
                        THEN Track(Append(network, PostSprite(getCurrentPose)))
                        ELSE network
          /\ UNCHANGED <<store, lastInsertRowid, spriteDbIds, requestFailed, uiMirror, starting>>
          /\ approving' = WithoutCall(approving, i)
          /\ last' = Ret("approve.resumed", TRUE, call.poseId, Downsized(call.data).imageData,
                         IF call.invokedAt # cursor
                         THEN IF ~MapHas(approvedSprites, call.poseId)
                              THEN "navigated and removed" ELSE "navigated"
                         ELSE IF ~MapHas(approvedSprites, call.poseId) THEN "removed" ELSE "")
    /\ UNCHANGED <<library, client, config, cursor, skippedPoses, candidates, isGenerating, requests>>

\* approve() from the downsample on: the copy of the engine it captured set
\* again under the captured pose id (an engine that engineRef no longer holds
\* is out of the session's reach), POSE_APPROVED dispatched, the sprite sent
\* to the gallery
approveResumes ==
    /\ \E i \in 1..Len(approving) :
        LET call == approving[i]
        IN
          /\ approvedSprites' = IF call.engine = "current"
                                THEN MapSet(approvedSprites, call.poseId, Downsized(call.data))
                                ELSE approvedSprites
          /\ approvedKeys' = IF call.engine = "current" THEN KeysAfterSet(call.poseId)
                                                        ELSE approvedKeys
          /\ uiApprovedSprites' = PoseApprovedList(uiApprovedSprites,
                                       Sprite(call.poseId, Downsized(call.data).imageData))
          /\ saveRequests' = IF generationSetId # Null
                             THEN saveRequests \cup {Sprite(call.poseId, Downsized(call.data).imageData)}
                             ELSE saveRequests
          /\ network' = IF generationSetId # Null
                        THEN Track(Append(network, PostSprite(call.poseId)))
                        ELSE network
          /\ UNCHANGED <<store, lastInsertRowid, spriteDbIds, requestFailed, uiMirror, starting>>
          /\ approving' = WithoutCall(approving, i)
          /\ last' = Ret("approve.resumed", TRUE, call.poseId, Downsized(call.data).imageData,
                         IF call.invokedAt # cursor
                         THEN IF ~MapHas(approvedSprites, call.poseId)
                              THEN "navigated and removed" ELSE "navigated"
                         ELSE IF ~MapHas(approvedSprites, call.poseId) THEN "removed" ELSE "")
    /\ UNCHANGED <<library, client, config, cursor, skippedPoses, candidates, isGenerating, requests>>

\* approve() when downsampleImage rejects: the handler ends at the await
approveRejects ==
    /\ \E i \in 1..Len(approving) :
        LET call == approving[i]
        IN
          /\ approving' = WithoutCall(approving, i)
          /\ last' = Ret("approve.rejected", FALSE, call.poseId, Null,
                         "Failed to load image for resizing")
    /\ UNCHANGED <<ui, saveRequests, starting, gallery, library, client, config, cursor, engineData,
                   candidates, isGenerating, requests, approvedKeys>>

\* removeSprite(poseId): removeApproval and SPRITE_REMOVED
removeSprite(poseId) ==
    /\ approvedSprites' = MapDelete(approvedSprites, poseId)
    /\ approvedKeys' = Track(SelectSeq(approvedKeys, LAMBDA k : k # poseId))
    /\ uiApprovedSprites' = SpriteRemovedList(uiApprovedSprites, poseId)
    /\ UNCHANGED uiMirror
    /\ IF generationSetId = Null
       THEN /\ UNCHANGED <<spriteDbIds, network>>
            /\ last' = Ret("removeSprite", TRUE, poseId, "SPRITE_REMOVED", "")
       ELSE IF audit /\ MapHas(spriteDbIds, poseId)
       THEN /\ spriteDbIds' = MapDelete(spriteDbIds, poseId)
            /\ network' = Append(network, DeleteSprite(spriteDbIds[poseId]))
            /\ last' = Ret("removeSprite", TRUE, poseId, "SPRITE_REMOVED", "cached id")
       ELSE /\ UNCHANGED spriteDbIds
            /\ network' = Track(Append(network, GetEntry(poseId)))
            /\ last' = Ret("removeSprite", TRUE, poseId, "SPRITE_REMOVED", Track("fetch entry"))
    /\ UNCHANGED <<approving, saveRequests, starting, store, lastInsertRowid, requestFailed, library, client,
                   config, cursor, skippedPoses, candidates, isGenerating, requests>>

\* approve() after `await addSpriteToGallery`: the row id is cached
approveSaved ==
    /\ \E i \in 1..Len(network) :
          /\ network[i].kind = "POST.200"
          /\ spriteDbIds' = MapSet(spriteDbIds, network[i].poseId, network[i].id)
          /\ network' = WithoutCall(network, i)
          /\ last' = Ret("approve.saved", TRUE, network[i].poseId, network[i].id, "")
    /\ UNCHANGED <<ui, approving, saveRequests, starting, store, lastInsertRowid, requestFailed, library,
                   client, config, cursor, engineData, candidates, isGenerating, requests,
                   approvedKeys>>

\* removeSprite() after fetchGalleryEntry: the row of the pose, if the entry
\* has one, is deleted by id
removeSpriteFetched ==
    /\ \E i \in 1..Len(network) :
          /\ network[i].kind = "GET.200"
          /\ LET found == { row \in network[i].sprites : row.poseId = network[i].poseId }
             IN  IF found = {}
                 THEN /\ network' = WithoutCall(network, i)
                      /\ last' = Ret("removeSprite.fetched", FALSE, network[i].poseId, Null, "")
                 ELSE LET dbSprite == CHOOSE row \in found : \A other \in found : row.id <= other.id
                      IN  /\ network' = [network EXCEPT ![i] = DeleteSprite(dbSprite.id)]
                          /\ last' = Ret("removeSprite.fetched", TRUE, network[i].poseId,
                                         dbSprite.id, "")
    /\ UNCHANGED <<ui, approving, saveRequests, starting, store, lastInsertRowid, spriteDbIds, requestFailed,
                   library, client, config, cursor, engineData, candidates, isGenerating, requests,
                   approvedKeys>>

----------------------------------------------------------------------------
(* The gallery routes of the server (src/server/routes/gallery.js), each    *)
(* handling one request that has arrived.                                   *)

\* POST /gallery/:id/sprites: the pose's rows are deleted and one inserted
postSprite ==
    /\ \E i \in 1..Len(network) :
          /\ network[i].kind = "POST"
          /\ store' = { row \in store : row.poseId # network[i].poseId }
                          \cup {[id |-> lastInsertRowid + 1, poseId |-> network[i].poseId]}
          /\ lastInsertRowid' = lastInsertRowid + 1
          /\ network' = [network EXCEPT ![i] = PostAnswer(network[i].poseId, lastInsertRowid + 1)]
          /\ last' = Ret("POST /gallery/:id/sprites", TRUE, network[i].poseId,
                         lastInsertRowid + 1, "")
    /\ UNCHANGED <<ui, approving, saveRequests, starting, spriteDbIds, requestFailed, library, client,
                   config, cursor, engineData, candidates, isGenerating, requests, approvedKeys>>

\* DELETE /gallery/:id/sprites/:spriteId: 404 when no row has the id; the
\* client ignores the answer either way
deleteSprite ==
    /\ \E i \in 1..Len(network) :
          /\ network[i].kind = "DELETE"
          /\ store' = { row \in store : row.id # network[i].id }
          /\ requestFailed' = (requestFailed \/ ~\E row \in store : row.id = network[i].id)
          /\ network' = WithoutCall(network, i)
          /\ last' = Ret("DELETE /gallery/:id/sprites/:spriteId",
                         \E row \in store : row.id = network[i].id, Null, network[i].id, "")
    /\ UNCHANGED <<ui, approving, saveRequests, starting, lastInsertRowid, spriteDbIds, library, client,
                   config, cursor, engineData, candidates, isGenerating, requests, approvedKeys>>

\* GET /gallery/:id: the rows of the set as they are now
getEntry ==
    /\ \E i \in 1..Len(network) :
          /\ network[i].kind = "GET"
          /\ network' = [network EXCEPT ![i] = GetAnswer(network[i].poseId, store)]
          /\ last' = Ret("GET /gallery/:id", TRUE, network[i].poseId, Null, "")
    /\ UNCHANGED <<ui, approving, saveRequests, starting, store, lastInsertRowid, spriteDbIds, requestFailed,
                   library, client, config, cursor, engineData, candidates, isGenerating, requests,
                   approvedKeys>>

----------------------------------------------------------------------------
\* Navigation through the hook, with batches, selection and the engine call
\* approve() makes before its await; the poses the pose tree offers are the
\* positions of the hierarchy
NextHook ==
    \/ GenerateStart("")
    \/ GenerateComplete
    \/ \E index \in 0..(MaxCandidates - 1) : selectOption(index)
    \/ approveSelected
    \/ skip
    \/ nextPose
    \/ prevPose
    \/ \E phaseIndex \in 0..(Len(hierarchy) - 1) :
          \E poseIndex \in 0..(Len(hierarchy[phaseIndex + 1]) - 1) :
             jumpToPoseHook(phaseIndex, poseIndex)

SpecHook == Init /\ [][NextHook]_vars

\* The sprites of the approved map as the UI list and the gallery hold them
RECURSIVE SpritesOf(_, _)
SpritesOf(m, poses) ==
    IF poses = <<>> THEN <<>>
    ELSE IF MapHas(m, Head(poses))
         THEN <<Sprite(Head(poses), m[Head(poses)].imageData)>> \o SpritesOf(m, Tail(poses))
         ELSE SpritesOf(m, Tail(poses))

\* Any session in which a batch has settled on the current pose: poses
\* approved earlier are stored downsized, shown in the UI and sent to the
\* gallery
InitApproveHook ==
    /\ hierarchy \in Hierarchies
    /\ audit = FALSE
    /\ currentPhaseIndex = 0
    /\ currentPoseIndex = 1
    /\ \E S \in SUBSET (PosesOf(hierarchy) \ {hierarchy[1][2]}) :
          \E m \in [S -> {Downsample(img) : img \in Images}] :
             /\ approvedSprites = [poseId \in S |->
                                      [imageData |-> m[poseId], prompt |-> Track(<<>>),
                                       referenceImageIds |-> Track(<<>>)]]
             /\ uiApprovedSprites = SpritesOf(approvedSprites, hierarchy[1] \o hierarchy[2])
             /\ saveRequests = { uiApprovedSprites[i] : i \in DOMAIN uiApprovedSprites }
    /\ store = Track({})
    /\ lastInsertRowid = Track(0)
    /\ spriteDbIds = Track(EmptyMap)
    /\ network = Track(<<>>)
    /\ requestFailed = Track(FALSE)
    /\ uiPhaseIndex = currentPhaseIndex
    /\ uiPoseIndex = currentPoseIndex
    /\ uiSkippedPoseIds = <<>>
    /\ starting = NoCall
    /\ gemini = NotCalling
    /\ skippedPoses = {}
    /\ generatedOptions \in [1..MaxCandidates -> {Produced(option, Null) : option \in OptionValues}]
    /\ selectedOptionIndex = -1
    /\ isGenerating = FALSE
    /\ lastPrompt = Track(<<>>)
    /\ inFlight = {}
    /\ approvedKeys = Track(<<>>)
    /\ approving = <<>>
    /\ assembled = NotAssembled
    /\ promises = <<>>
    /\ settledOrder = <<>>
    /\ resolved = NotCalled
    /\ last = Ret("generateCurrentPose.resolved", TRUE, Null, Null, "")

\* approve() interleaved with selection, navigation and removal
NextApproveHook ==
    \/ \E index \in 0..(MaxCandidates - 1) : selectOption(index)
    \/ (Len(approving) < MaxApproving \/ ~CanApprove) /\ approve
    \/ approveResumes
    \/ approveRejects
    \/ \E phaseIndex \in 0..(Len(hierarchy) - 1) :
          \E poseIndex \in 0..(Len(hierarchy[phaseIndex + 1]) - 1) :
             jumpToPoseHook(phaseIndex, poseIndex)
    \/ \E poseId \in PosesOf(hierarchy) : removeSprite(poseId)

SpecApproveHook == InitApproveHook /\ [][NextApproveHook]_vars

----------------------------------------------------------------------------
(* Sessions of the hook: startWorkflow and resumeFromGallery put a new      *)
(* engine into engineRef before their last await and dispatch after it; the *)
(* other handlers run on whatever engine engineRef holds meanwhile. One     *)
(* such call is followed at a time.                                         *)

\* Gallery entries to resume: the poses with a stored sprite, and its image,
\* saved at full resolution
Entries(h) == UNION { [S -> {"Y"}] : S \in SUBSET PosesOf(h) }

\* The approve() calls suspended on an engine that engineRef has dropped
Replaced(calls) == [i \in 1..Len(calls) |-> [calls[i] EXCEPT !.engine = "replaced"]]

\* new WorkflowEngine(...) assigned to engineRef.current
NewEngine ==
    /\ currentPhaseIndex' = 0
    /\ currentPoseIndex' = 0
    /\ approvedSprites' = EmptyMap
    /\ approvedKeys' = Track(<<>>)
    /\ skippedPoses' = {}
    /\ generatedOptions' = <<>>
    /\ selectedOptionIndex' = -1
    /\ isGenerating' = FALSE
    /\ lastPrompt' = Track(<<>>)
    /\ inFlight' = {}
    /\ approving' = Replaced(approving)

\* startWorkflow(config) up to `await createGalleryEntry`
startWorkflow(valid) ==
    /\ starting = NoCall
    /\ IF ~valid
       THEN /\ last' = Ret("startWorkflow", FALSE, Null, Null, "Please fill in all required fields.")
            /\ UNCHANGED <<starting, approving, cursor, engineData, candidates, isGenerating,
                           requests, approvedKeys>>
       ELSE /\ NewEngine
            /\ starting' = [op |-> "startWorkflow"]
            /\ last' = Ret("startWorkflow", TRUE, Null, "pending", "")
    /\ UNCHANGED <<ui, saveRequests, gallery, library, client, config>>

\* startWorkflow from that await on: WORKFLOW_STARTED, then POSE_NAVIGATED
\* with phaseIndex 0 and poseIndex 0
startWorkflowStarted ==
    /\ starting.op = "startWorkflow"
    /\ starting' = NoCall
    /\ uiPhaseIndex' = 0
    /\ uiPoseIndex' = 0
    /\ uiApprovedSprites' = <<>>
    /\ uiSkippedPoseIds' = <<>>
    /\ last' = Ret("startWorkflow.started", TRUE, getCurrentPose, "WORKFLOW_STARTED", "")
    /\ UNCHANGED <<approving, saveRequests, gallery, library, client, config, cursor, engineData,
                   candidates, isGenerating, requests, approvedKeys>>

\* resumeFromGallery(galleryId) up to `await Promise.all(downsampleImage...)`;
\* nothing happens when the entry cannot be fetched
resumeFromGallery(entry, fetched) ==
    /\ starting = NoCall
    /\ IF ~fetched
       THEN /\ last' = Ret("resumeFromGallery", FALSE, Null, Null, "Resume failed")
            /\ UNCHANGED <<starting, approving, spriteDbIds, cursor, engineData, candidates,
                           isGenerating, requests, approvedKeys>>
       ELSE /\ NewEngine
            /\ spriteDbIds' = Track(EmptyMap)
            /\ starting' = [op |-> "resumeFromGallery", entry |-> entry]
            /\ last' = Ret("resumeFromGallery", TRUE, Null, "pending", "")
    /\ UNCHANGED <<ui, saveRequests, store, lastInsertRowid, network, requestFailed, library,
                   client, config>>

\* The row id of a pose's sprite in an entry whose sprites were saved once
\* each in hierarchy order
RECURSIVE RowId(_, _)
RowId(poses, poseId) == IF Head(poses) = poseId THEN 1 ELSE 1 + RowId(Tail(poses), poseId)

\* resumeFromGallery from that await on: the entry's sprites set in the
\* engine, WORKFLOW_STARTED, SYNC_ENGINE with no skipped poses,
\* advanceToNextUnapprovedPose (jumpToPose(0, 0) when done), POSE_NAVIGATED
\* with the engine's cursor, the approved sprite shown when done
resumeFromGalleryRestores ==
    /\ starting.op = "resumeFromGallery"
    /\ starting' = NoCall
    /\ LET entry    == starting.entry
           inOrder  == IdsInOrder(DOMAIN entry, hierarchy)
           restored == [k \in DOMAIN entry |->
                           [imageData |-> Downsample(entry[k]), prompt |-> Track(<<>>),
                            referenceImageIds |-> Track(<<>>)]]
       IN  /\ approvedSprites' = [k \in DOMAIN approvedSprites \cup DOMAIN entry |->
                                     IF k \in DOMAIN entry THEN restored[k] ELSE approvedSprites[k]]
           /\ approvedKeys' = Track(approvedKeys \o
                                    SelectSeq(inOrder, LAMBDA k : ~MapHas(approvedSprites, k)))
           /\ spriteDbIds' = Track([k \in DOMAIN spriteDbIds \cup DOMAIN entry |->
                                     IF k \in DOMAIN entry
                                     THEN RowId(inOrder, k) ELSE spriteDbIds[k]])
           /\ uiApprovedSprites' = SpritesOf(restored, inOrder)
           /\ uiSkippedPoseIds' = <<>>
    /\ UNCHANGED <<skippedPoses, config>>
    /\ \E first \in {hierarchy[1][1]} :
          LET scan == FullScan(0, 0)'
          IN  IF scan.done
              THEN /\ currentPhaseIndex' = 0
                   /\ currentPoseIndex' = 0
                   /\ generatedOptions' = ShownOptions(first, <<>>)'
                   /\ selectedOptionIndex' = ShownSelection(first, -1)'
                   /\ last' = Ret("resumeFromGallery.restored", TRUE, first, "POSE_NAVIGATED",
                                  "all resolved")
              ELSE /\ currentPhaseIndex' = scan.ph
                   /\ currentPoseIndex' = scan.pi
                   /\ generatedOptions' = <<>>
                   /\ selectedOptionIndex' = -1
                   /\ last' = Ret("resumeFromGallery.restored", TRUE, scan.pose,
                                  "POSE_NAVIGATED", "")
    /\ uiPhaseIndex' = currentPhaseIndex'
    /\ uiPoseIndex' = currentPoseIndex'
    /\ UNCHANGED <<approving, saveRequests, store, lastInsertRowid, network, requestFailed,
                   library, client, isGenerating, requests>>

\* resumeFromGallery when a downsampleImage rejects: the catch block, after
\* engineRef took the new engine
resumeFromGalleryRejects ==
    /\ starting.op = "resumeFromGallery"
    /\ starting' = NoCall
    /\ last' = Ret("resumeFromGallery.rejected", FALSE, Null, Null, "Resume failed")
    /\ UNCHANGED <<ui, approving, saveRequests, gallery, library, client, config, cursor,
                   engineData, candidates, isGenerating, requests, approvedKeys>>

\* Hierarchies of two phases of one pose each
SessionHierarchies == { << <<"a">>, <<"b">> >> }

\* A session under way: candidates on the first pose, one of them selected
InitSession ==
    /\ hierarchy \in SessionHierarchies
    /\ audit = FALSE
    /\ currentPhaseIndex = 0
    /\ currentPoseIndex = 0
    /\ approvedSprites = EmptyMap
    /\ approvedKeys = Track(<<>>)
    /\ skippedPoses = {}
    /\ lastPrompt = Track(<<>>)
    /\ generatedOptions = [i \in 1..MaxCandidates |-> Produced(ImageOption("Y"), Null)]
    /\ selectedOptionIndex = 0
    /\ isGenerating = FALSE
    /\ uiApprovedSprites = <<>>
    /\ uiPhaseIndex = 0
    /\ uiPoseIndex = 0
    /\ uiSkippedPoseIds = <<>>
    /\ inFlight = {}
    /\ promises = <<>>
    /\ settledOrder = <<>>
    /\ resolved = NotCalled
    /\ assembled = NotAssembled
    /\ approving = <<>>
    /\ starting = NoCall
    /\ gemini = NotCalling
    /\ saveRequests = {}
    /\ store = Track({})
    /\ lastInsertRowid = Track(0)
    /\ spriteDbIds = Track(EmptyMap)
    /\ network = Track(<<>>)
    /\ requestFailed = Track(FALSE)
    /\ last = Ret("selectOption", TRUE, Null, Null, "")

NextSession ==
    \/ \E valid \in BOOLEAN : startWorkflow(valid)
    \/ startWorkflowStarted
    \/ \E entry \in Entries(hierarchy), fetched \in BOOLEAN : resumeFromGallery(entry, fetched)
    \/ resumeFromGalleryRestores
    \/ resumeFromGalleryRejects
    \/ (Len(approving) < MaxApproving \/ ~CanApprove) /\ approve
    \/ approveResumes
    \/ approveRejects
    \/ skip
    \/ nextPose
    \/ prevPose
    \/ \E phaseIndex \in 0..(Len(hierarchy) - 1) :
          \E poseIndex \in 0..(Len(hierarchy[phaseIndex + 1]) - 1) :
             jumpToPoseHook(phaseIndex, poseIndex)
    \/ \E poseId \in PosesOf(hierarchy) : removeSprite(poseId)

SpecSession == InitSession /\ [][NextSession]_vars

----------------------------------------------------------------------------
(* The call of the generation service: callGemini of the server route and   *)
(* callGeminiDirect of the browser client are the same function; the engine *)
(* awaits generateImage and stores what it settles with.                    *)

MAX_RETRIES == 3

\* The statuses the service answers with
Statuses == {200, 429, 500}

\* response.status === 429 && retries < MAX_RETRIES, without the bound on
\* the last retry
ShouldRetryOnceMore(status, retries) == status = 429 /\ retries <= MAX_RETRIES

\* response.status === 429 && retries < MAX_RETRIES
ShouldRetry(status, retries) == status = 429 /\ retries < MAX_RETRIES

\* generateImage calls callGemini(body): retries = 0, the first fetch sent
callGemini(via) ==
    /\ gemini.state # "awaiting"
    /\ gemini' = [state |-> "awaiting", via |-> via, retries |-> 0, attempts |-> 1, seen |-> <<>>]
    /\ last' = Ret("callGemini", TRUE, Null, "pending", via)
    /\ UNCHANGED <<assembled, ui, hook, client, config, cursor, engineData, candidates,
                   isGenerating, requests, approvedKeys>>

\* The fetch resolves with a response: after the delay the function calls
\* itself with retries + 1 and sends the next fetch, or returns the response
callGeminiResponse(status) ==
    /\ gemini.state = "awaiting"
    /\ IF ShouldRetry(status, gemini.retries)
       THEN /\ gemini' = [gemini EXCEPT !.retries = @ + 1, !.attempts = @ + 1,
                                        !.seen = Append(@, status)]
            /\ last' = Ret("callGemini.response", FALSE, Null, "retry", gemini.via)
       ELSE /\ gemini' = [gemini EXCEPT !.state = "returned", !.seen = Append(@, status)]
            /\ last' = Ret("callGemini.response", status = 200, Null, "returned", gemini.via)
    /\ UNCHANGED <<assembled, ui, hook, client, config, cursor, engineData, candidates,
                   isGenerating, requests, approvedKeys>>

\* The fetch rejects: the rejection leaves callGemini at once
callGeminiThrows ==
    /\ gemini.state = "awaiting"
    /\ gemini' = [gemini EXCEPT !.state = "threw"]
    /\ last' = Ret("callGemini.threw", FALSE, Null, Null, gemini.via)
    /\ UNCHANGED <<assembled, ui, hook, client, config, cursor, engineData, candidates,
                   isGenerating, requests, approvedKeys>>

NextRetry ==
    \/ \E via \in {"server", "direct"} : callGemini(via)
    \/ \E status \in Statuses : callGeminiResponse(status)
    \/ callGeminiThrows
    \/ \E index \in 0..(MaxCandidates - 1) : regenerateOne(index, "")
    \/ regenerateOneSettles

SpecRetry == InitSession /\ [][NextRetry]_vars

----------------------------------------------------------------------------
(* Generation requests in any session: poses approved earlier, the cursor  *)
(* anywhere, requests issued on one pose still in flight on another.        *)

\* The keys of a map in the order of the hierarchy
KeysInOrder(m, h) == SelectSeq(h[1] \o h[2], LAMBDA k : MapHas(m, k))

InitRequests ==
    /\ hierarchy \in RefHierarchies
    /\ audit = TRUE
    /\ \E ph \in 1..Len(hierarchy) :
          /\ currentPhaseIndex = ph - 1
          /\ currentPoseIndex \in 0..(Len(hierarchy[ph]) - 1)
    /\ \E keys \in SUBSET PosesOf(hierarchy) :
          approvedSprites = [k \in keys |-> [imageData |-> IF k = "a" THEN "Y@512" ELSE "X",
                                             prompt |-> <<>>, referenceImageIds |-> <<>>]]
    /\ approvedKeys = KeysInOrder(approvedSprites, hierarchy)
    /\ skippedPoses = {}
    /\ generatedOptions = <<>>
    /\ selectedOptionIndex = -1
    /\ isGenerating = FALSE
    /\ uiApprovedSprites = <<>>
    /\ last = Ret("constructor", TRUE, Null, Null, "")
    /\ lastPrompt = <<>>
    /\ inFlight = {}
    /\ promises = <<>>
    /\ settledOrder = <<>>
    /\ resolved = NotCalled
    /\ assembled = NotAssembled
    /\ approving = <<>>
    /\ saveRequests = {}
    /\ store = Track({})
    /\ lastInsertRowid = Track(0)
    /\ spriteDbIds = Track(EmptyMap)
    /\ network = Track(<<>>)
    /\ requestFailed = Track(FALSE)
    /\ uiPhaseIndex = 0
    /\ uiPoseIndex = 0
    /\ uiSkippedPoseIds = <<>>
    /\ starting = NoCall
    /\ gemini = NotCalling

NextRequests ==
    \/ GenerateStart("redo")
    \/ \E index \in 0..(MaxCandidates - 1) : regenerateOne(index, "")
    \/ \E phaseIndex \in 0..(Len(hierarchy) - 1) :
          \E poseIndex \in 0..(Len(hierarchy[phaseIndex + 1]) - 1) :
             jumpToPose(phaseIndex, poseIndex)

SpecRequests == InitRequests /\ [][NextRequests]_vars

----------------------------------------------------------------------------
(* generateMultiple of the generation client (src/unnamed/part_002): count  *)
(* generateImage requests issued together, settling in any order.           *)

\* What generateImage fulfils with: the parsed response, with or without an image
ClientResults == {ImageOption(img) : img \in Images} \cup {[text |-> "no image"]}
\* Messages of the errors generateImage rejects with
Reasons == {"Server error (500)", ""}

Pending == [status |-> "pending"]
Fulfilled(value) == [status |-> "fulfilled", value |-> value]
Rejected(message) == [status |-> "rejected", reason |-> message]

\* The callback of settled.map
SettledEntry(outcome) ==
    IF outcome.status = "fulfilled" THEN outcome.value
    ELSE ErrorOption(IF outcome.reason # "" THEN outcome.reason ELSE "Unknown error")

\* The outcomes taken in the order the requests completed
CollectInCompletionOrder(settled) ==
    [i \in 1..Len(settled) |-> SettledEntry(settled[settledOrder[i]])]

\* settled.map(...): allSettled keeps the order of the promises array
CollectOutcomes(settled) ==
    [i \in 1..Len(settled) |-> SettledEntry(settled[i])]

engine == <<ui, hook, library, config, cursor, engineData, candidates, isGenerating, requests,
            approvedKeys, last>>

generateMultiple(count) ==
    /\ resolved.status # "pending"
    /\ promises' = [i \in 1..count |-> Pending]
    /\ settledOrder' = <<>>
    /\ resolved' = NotResolved
    /\ UNCHANGED engine

generateImageFulfils(i, value) ==
    /\ resolved.status = "pending"
    /\ promises[i].status = "pending"
    /\ promises' = [promises EXCEPT ![i] = Fulfilled(value)]
    /\ settledOrder' = Append(settledOrder, i)
    /\ UNCHANGED <<resolved, engine>>

generateImageRejects(i, message) ==
    /\ resolved.status = "pending"
    /\ promises[i].status = "pending"
    /\ promises' = [promises EXCEPT ![i] = Rejected(message)]
    /\ settledOrder' = Append(settledOrder, i)
    /\ UNCHANGED <<resolved, engine>>

\* Promise.all in place of Promise.allSettled: rejected with the reason of the
\* first request that rejects
allFailFast ==
    /\ resolved.status = "pending"
    /\ \/ \E i \in 1..Len(promises) : promises[i].status = "rejected"
       \/ \A i \in 1..Len(promises) : promises[i].status = "fulfilled"
    /\ resolved' = IF \E i \in 1..Len(promises) : promises[i].status = "rejected"
                   THEN Rejected("request failed")
                   ELSE ResolvedTo([i \in 1..Len(promises) |-> promises[i].value])
    /\ UNCHANGED <<promises, settledOrder, engine>>

\* Promise.allSettled resolves once every request has settled
allSettled ==
    /\ resolved.status = "pending"
    /\ \A i \in 1..Len(promises) : promises[i].status # "pending"
    /\ resolved' = ResolvedTo(CollectOutcomes(promises))
    /\ UNCHANGED <<promises, settledOrder, engine>>

NextMultiple ==
    \/ \E count \in 0..MaxCount : generateMultiple(count)
    \/ \E i \in 1..Len(promises), value \in ClientResults : generateImageFulfils(i, value)
    \/ \E i \in 1..Len(promises), message \in Reasons : generateImageRejects(i, message)
    \/ allSettled

SpecMultiple == Init /\ [][NextMultiple]_vars

----------------------------------------------------------------------------
(* generateCurrentPose together with the client it calls, in any session   *)
(* on a hierarchy with a pose that has no prompt fragment: any poses with a *)
(* fragment approved, any poses skipped, the cursor anywhere.               *)

FragmentHierarchies == { << <<"a", NoFragmentPose>>, <<"c">> >> }

InitGenerate ==
    /\ hierarchy \in FragmentHierarchies
    /\ \E ph \in 1..Len(hierarchy) :
          /\ currentPhaseIndex = ph - 1
          /\ currentPoseIndex \in 0..(Len(hierarchy[ph]) - 1)
    /\ \E keys \in SUBSET (PosesOf(hierarchy) \cap DOMAIN POSE_PROMPTS) :
          approvedSprites \in [keys -> [imageData : {"X"}, prompt : {Untracked},
                                        referenceImageIds : {Untracked}]]
    /\ skippedPoses \in SUBSET PosesOf(hierarchy)
    /\ generatedOptions = <<>>
    /\ selectedOptionIndex = -1
    /\ isGenerating = FALSE
    /\ uiApprovedSprites = <<>>
    /\ last = Ret("constructor", TRUE, Null, Null, "")
    /\ audit = FALSE
    /\ lastPrompt = Untracked
    /\ approvedKeys = Untracked
    /\ inFlight = {}
    /\ promises = <<>>
    /\ settledOrder = <<>>
    /\ resolved = NotCalled
    /\ assembled = NotAssembled
    /\ approving = <<>>
    /\ saveRequests = {}
    /\ store = Track({})
    /\ lastInsertRowid = Track(0)
    /\ spriteDbIds = Track(EmptyMap)
    /\ network = Track(<<>>)
    /\ requestFailed = Track(FALSE)
    /\ uiPhaseIndex = 0
    /\ uiPoseIndex = 0
    /\ uiSkippedPoseIds = <<>>
    /\ starting = NoCall
    /\ gemini = NotCalling

\* generateCurrentPose from its first line to its await, the call of
\* client.generateMultiple included
generateCurrentPoseCalls(customInstructions) ==
    /\ ~isGenerating
    /\ generateCurrentPoseToAwait(customInstructions)
    /\ IF getCurrentPose # Null /\ ~AssembleCurrent.throws
       THEN /\ promises' = [i \in 1..MaxCandidates |-> Pending]
            /\ settledOrder' = <<>>
            /\ resolved' = NotResolved
       ELSE UNCHANGED client

\* The awaited promise has settled and generateCurrentPose runs to its end
generateCurrentPoseResumes ==
    /\ resolved.status \in {"fulfilled", "rejected"}
    /\ generateCurrentPoseAfterAwait(IF resolved.status = "fulfilled"
                                     THEN Return(resolved.value)
                                     ELSE Throw(resolved.reason))
    /\ promises' = <<>>
    /\ settledOrder' = <<>>
    /\ resolved' = NotCalled

\* generate() of the hook without its test of engine.isGenerating
generateUnguarded(customInstructions) ==
    /\ generateCurrentPoseToAwait(customInstructions)
    /\ IF getCurrentPose # Null /\ ~AssembleCurrent.throws
       THEN /\ promises' = [i \in 1..MaxCandidates |-> Pending]
            /\ settledOrder' = <<>>
            /\ resolved' = NotResolved
       ELSE UNCHANGED client

\* generate() of the hook: it returns at once while the engine is
\* generating, and calls generateCurrentPose otherwise
generate(customInstructions) ==
    IF isGenerating
    THEN /\ last' = Ret("generate", FALSE, getCurrentPose, Null, "ignored")
         /\ UNCHANGED <<ui, hook, library, client, config, cursor, engineData, candidates,
                        isGenerating, requests, approvedKeys>>
    ELSE generateCurrentPoseCalls(customInstructions)

NextGenerate ==
    \/ \E customInstructions \in Instructions : generateCurrentPoseCalls(customInstructions)
    \/ \E i \in 1..Len(promises), value \in ClientResults : generateImageFulfils(i, value)
    \/ \E i \in 1..Len(promises), message \in Reasons : generateImageRejects(i, message)
    \/ allSettled
    \/ generateCurrentPoseResumes

SpecGenerate == InitGenerate /\ [][NextGenerate]_vars

\* The hook's generate() pressed at any time, with navigation, while the
\* client's requests settle
NextGenerateHook ==
    \/ \E customInstructions \in Instructions : generate(customInstructions)
    \/ \E i \in 1..Len(promises), value \in ClientResults : generateImageFulfils(i, value)
    \/ \E i \in 1..Len(promises), message \in Reasons : generateImageRejects(i, message)
    \/ allSettled
    \/ generateCurrentPoseResumes
    \/ \E phaseIndex \in 0..(Len(hierarchy) - 1) :
          \E poseIndex \in 0..(Len(hierarchy[phaseIndex + 1]) - 1) :
             jumpToPoseHook(phaseIndex, poseIndex)

SpecGenerateHook == InitGenerate /\ [][NextGenerateHook]_vars

----------------------------------------------------------------------------
(* The reference selector on any session: an engine with any poses approved *)
(* and the cursor anywhere, navigated, read and un-approved.                *)

InitRefs ==
    /\ hierarchy \in RefHierarchies
    /\ \E ph \in 1..Len(hierarchy) :
          /\ currentPhaseIndex = ph - 1
          /\ currentPoseIndex \in 0..(Len(hierarchy[ph]) - 1)
    /\ \E keys \in SUBSET PosesOf(hierarchy) :
          approvedSprites \in [keys -> [imageData : Images, prompt : {Untracked},
                                        referenceImageIds : {Untracked}]]
    /\ skippedPoses = {}
    /\ generatedOptions = <<>>
    /\ selectedOptionIndex = -1
    /\ isGenerating = FALSE
    /\ uiApprovedSprites = <<>>
    /\ last = Ret("constructor", TRUE, Null, Null, "")
    /\ audit = FALSE
    /\ lastPrompt = Untracked
    /\ approvedKeys = Untracked
    /\ inFlight = {}
    /\ promises = <<>>
    /\ settledOrder = <<>>
    /\ resolved = NotCalled
    /\ assembled = NotAssembled
    /\ approving = <<>>
    /\ saveRequests = {}
    /\ store = Track({})
    /\ lastInsertRowid = Track(0)
    /\ spriteDbIds = Track(EmptyMap)
    /\ network = Track(<<>>)
    /\ requestFailed = Track(FALSE)
    /\ uiPhaseIndex = 0
    /\ uiPoseIndex = 0
    /\ uiSkippedPoseIds = <<>>
    /\ starting = NoCall
    /\ gemini = NotCalling

\* A caller reads the reference list.
readReferences ==
    /\ last' = Ret("getApprovedImagesForReference", TRUE, getCurrentPose,
                   getApprovedImagesForReference, "")
    /\ UNCHANGED <<ui, hook, library, client, config, cursor, engineData, candidates, isGenerating,
                   requests, approvedKeys>>

NextRefs ==
    \/ readReferences
    \/ goToPreviousPose
    \/ \E phaseIndex \in PhaseArgs, poseIndex \in PoseArgs : jumpToPose(phaseIndex, poseIndex)
    \/ \E poseId \in RemoveIds : removeApproval(poseId)

SpecRefs == InitRefs /\ [][NextRefs]_vars

----------------------------------------------------------------------------
(* The engine carrying its audit data: every candidate remembers the call   *)
(* that produced it, every approved record its prompt and reference ids.    *)

InitAudit ==
    /\ hierarchy \in Hierarchies
    /\ currentPhaseIndex = 0
    /\ currentPoseIndex = 0
    /\ approvedSprites = EmptyMap
    /\ skippedPoses = {}
    /\ generatedOptions = <<>>
    /\ selectedOptionIndex = -1
    /\ isGenerating = FALSE
    /\ uiApprovedSprites = <<>>
    /\ last = Ret("constructor", TRUE, Null, Null, "")
    /\ audit = TRUE
    /\ lastPrompt = <<>>
    /\ approvedKeys = <<>>
    /\ inFlight = {}
    /\ promises = <<>>
    /\ settledOrder = <<>>
    /\ resolved = NotCalled
    /\ assembled = NotAssembled
    /\ approving = <<>>
    /\ saveRequests = {}
    /\ store = Track({})
    /\ lastInsertRowid = Track(0)
    /\ spriteDbIds = Track(EmptyMap)
    /\ network = Track(<<>>)
    /\ requestFailed = Track(FALSE)
    /\ uiPhaseIndex = currentPhaseIndex
    /\ uiPoseIndex = currentPoseIndex
    /\ uiSkippedPoseIds = <<>>
    /\ starting = NoCall
    /\ gemini = NotCalling

\* Navigation while a batch is awaited.
NextStale ==
    \/ \E customInstructions \in Instructions : GenerateStart(customInstructions)
    \/ GenerateComplete
    \/ \E index \in SlotArgs : selectOption(index)
    \/ advanceToNextPose
    \/ goToPreviousPose
    \/ \E phaseIndex \in PhaseArgs, poseIndex \in PoseArgs : jumpToPose(phaseIndex, poseIndex)

SpecStale == InitAudit /\ [][NextStale]_vars

\* Batches and single-slot regenerations of the first pose, overlapping,
\* without custom instructions.
NextRegen ==
    \/ GenerateStart("")
    \/ GenerateComplete
    \/ \E index \in SlotArgs : regenerateOne(index, "")
    \/ regenerateOneSettles
    \/ \E index \in SlotArgs : selectOption(index)

SpecRegen == InitAudit /\ [][NextRegen]_vars

\* Approval after a batch without custom instructions and regenerations
\* with any.
NextPrompt ==
    \/ GenerateStart("")
    \/ GenerateComplete
    \/ \E index \in SlotArgs, customInstructions \in Instructions :
          regenerateOne(index, customInstructions)
    \/ regenerateOneSettles
    \/ \E index \in SlotArgs : selectOption(index)
    \/ approveSelected

SpecPrompt == InitAudit /\ [][NextPrompt]_vars

\* Saves the session has started: rows inserted, requests sent, calls suspended
SavesStarted ==
    lastInsertRowid + Len(approving)
        + Cardinality({ i \in 1..Len(network) : network[i].kind = "POST" })

\* A session with a gallery entry in which a batch has settled on the first
\* pose and a candidate is selected; nothing is approved or saved yet
InitGallery ==
    /\ hierarchy \in Hierarchies
    /\ audit = TRUE
    /\ currentPhaseIndex = 0
    /\ currentPoseIndex = 0
    /\ approvedSprites = EmptyMap
    /\ approvedKeys = <<>>
    /\ skippedPoses = {}
    /\ lastPrompt = CurrentPrompt("")
    /\ generatedOptions = [i \in 1..MaxCandidates |->
                              Produced(ImageOption("Y"), Request("all", 0, ""))]
    /\ selectedOptionIndex = 0
    /\ isGenerating = FALSE
    /\ uiApprovedSprites = <<>>
    /\ inFlight = {}
    /\ promises = <<>>
    /\ settledOrder = <<>>
    /\ resolved = NotCalled
    /\ assembled = NotAssembled
    /\ approving = <<>>
    /\ saveRequests = {}
    /\ store = {}
    /\ lastInsertRowid = 0
    /\ spriteDbIds = EmptyMap
    /\ network = <<>>
    /\ requestFailed = FALSE
    /\ uiPhaseIndex = currentPhaseIndex
    /\ uiPoseIndex = currentPoseIndex
    /\ uiSkippedPoseIds = <<>>
    /\ starting = NoCall
    /\ gemini = NotCalling
    /\ last = Ret("selectOption", TRUE, Null, Null, "")

\* Approvals and re-approvals of the current pose, removals of the sprites
\* the UI lists, and the server handling the requests in any order
NextGallery ==
    \/ (SavesStarted < MaxSaves \/ ~CanApprove) /\ approve
    \/ approveResumes
    \/ approveSaved
    \/ \E i \in 1..Len(uiApprovedSprites) :
          Len(network) < MaxNetwork /\ removeSprite(uiApprovedSprites[i].poseId)
    \/ removeSpriteFetched
    \/ postSprite
    \/ deleteSprite
    \/ getEntry

SpecGallery == InitGallery /\ [][NextGallery]_vars

----------------------------------------------------------------------------
(* buildFullPrompt called once with any arguments *)

GameTypeArgs == {"TOP_DOWN_RPG", "CREATURE", "UNKNOWN"}
SizeArgs == {[w |-> 16, h |-> 24], [w |-> 32, h |-> 32]}
ConfigArgs == [name : {"Hero"}, description : {"a knight"},
               equipment : {"", "a sword"}, colorNotes : {"", "red cape"}]
PromptPoseArgs == {"a", "e", NoFragmentPose}
CountArgs == -1..MaxReferences

AssembleArgs ==
    [gameTypeId : GameTypeArgs, spriteSize : SizeArgs, characterConfig : ConfigArgs,
     pose : PromptPoseArgs, approvedCount : CountArgs]

InitAssemble ==
    /\ hierarchy \in Hierarchies
    /\ currentPhaseIndex = 0
    /\ currentPoseIndex = 0
    /\ approvedSprites = EmptyMap
    /\ skippedPoses = {}
    /\ generatedOptions = <<>>
    /\ selectedOptionIndex = -1
    /\ isGenerating = FALSE
    /\ uiApprovedSprites = <<>>
    /\ last = Ret("constructor", TRUE, Null, Null, "")
    /\ audit = FALSE
    /\ lastPrompt = Untracked
    /\ approvedKeys = Untracked
    /\ inFlight = {}
    /\ promises = <<>>
    /\ settledOrder = <<>>
    /\ resolved = NotCalled
    /\ \E args \in AssembleArgs : assembled = [called |-> FALSE, args |-> args]
    /\ approving = <<>>
    /\ saveRequests = {}
    /\ store = Track({})
    /\ lastInsertRowid = Track(0)
    /\ spriteDbIds = Track(EmptyMap)
    /\ network = Track(<<>>)
    /\ requestFailed = Track(FALSE)
    /\ uiPhaseIndex = currentPhaseIndex
    /\ uiPoseIndex = currentPoseIndex
    /\ uiSkippedPoseIds = <<>>
    /\ starting = NoCall
    /\ gemini = NotCalling

callBuildFullPrompt ==
    /\ ~assembled.called
    /\ assembled' = [called |-> TRUE, args |-> assembled.args,
                     result |-> buildFullPrompt(assembled.args.gameTypeId,
                                                assembled.args.spriteSize,
                                                assembled.args.characterConfig,
                                                assembled.args.pose,
                                                assembled.args.approvedCount)]
    /\ UNCHANGED <<gemini, ui, hook, client, config, cursor, engineData, candidates,
                   isGenerating, requests, approvedKeys, last>>

NextAssemble == callBuildFullPrompt

SpecAssemble == InitAssemble /\ [][NextAssemble]_vars

----------------------------------------------------------------------------
(* Vocabulary of the properties: the hierarchy as positions in order *)

Positions ==
    UNION { { <<ph, pi>> : pi \in 0..(Len(hierarchy[ph + 1]) - 1) } : ph \in 0..(Len(hierarchy) - 1) }

\* p comes before q in hierarchy order
Before(p, q) == p[1] < q[1] \/ (p[1] = q[1] /\ p[2] < q[2])

PoseOf(p) == hierarchy[p[1] + 1][p[2] + 1]

First(S) == CHOOSE p \in S : \A q \in S : p = q \/ Before(p, q)

UnresolvedPositions == { p \in Positions : Unresolved(PoseOf(p)) }
UnresolvedAfterCursor == { p \in UnresolvedPositions : Before(cursor, p) }

Completed == MapSize(approvedSprites) + Cardinality(skippedPoses)


----------------------------------------------------------------------------
(* Properties *)

\* C1: no pose id is at once a key of the approved map and a member of the
\* skipped set.
C1_ApprovedSkippedDisjoint == (DOMAIN approvedSprites) \cap skippedPoses = {}

\* C2: isComplete() is true exactly when approved.size + skipped.size equals
\* the hierarchy's total pose count.
C2_CompleteIffSumEqualsTotal ==
    isComplete <=> (Completed = getTotalPoseCountFromHierarchy(hierarchy))

\* C3 as stated: a successful approveSelected() leaves an entry for the current
\* pose and makes approved.size + skipped.size exactly one greater.
C3_ApproveAddsOne ==
    [][Approved(last') =>
         /\ MapHas(approvedSprites', getCurrentPose)
         /\ Completed' = Completed + 1]_vars

\* C3 as amended: a successful approveSelected() leaves an entry for the current
\* pose; approved.size + skipped.size is one greater when the pose had no
\* approved entry before the call and is unchanged when it had one.
C3_ApproveCountsPoseOnce ==
    [][Approved(last') =>
         /\ MapHas(approvedSprites', getCurrentPose)
         /\ Completed' = Completed + (IF MapHas(approvedSprites, getCurrentPose) THEN 0 ELSE 1)]_vars

C3_Witness == Approved(last) /\ last.note = "replaced" /\ getCurrentPose \in skippedPoses

\* C4: approving a pose that already has an approved entry replaces the entry:
\* the map keeps the same keys, the pose's image is the selected candidate's;
\* and POSE_APPROVED leaves the reducer's list with exactly one entry for the
\* sprite's pose, the dispatched sprite, the list as long as before when the
\* pose had an entry.
C4_ReapprovalReplaces ==
    [][/\ (Approved(last') /\ MapHas(approvedSprites, getCurrentPose)) =>
            /\ DOMAIN approvedSprites' = DOMAIN approvedSprites
            /\ approvedSprites'[getCurrentPose].imageData
                 = generatedOptions[selectedOptionIndex + 1].image
            /\ \A k \in (DOMAIN approvedSprites) \ {getCurrentPose} :
                 approvedSprites'[k] = approvedSprites[k]
       /\ \A sprite \in { Sprite(poseId, img) : poseId \in RemoveIds, img \in Images } :
            dispatchPoseApproved(sprite) =>
              LET before == { i \in 1..Len(uiApprovedSprites) : uiApprovedSprites[i].poseId = sprite.poseId }
                  after  == { i \in 1..Len(uiApprovedSprites') : uiApprovedSprites'[i].poseId = sprite.poseId }
              IN  /\ Cardinality(after) = 1
                  /\ \A i \in after : uiApprovedSprites'[i] = sprite
                  /\ before # {} => Len(uiApprovedSprites') = Len(uiApprovedSprites)
                  /\ before = {} => Len(uiApprovedSprites') = Len(uiApprovedSprites) + 1
      ]_vars

C4_Witness ==
    /\ Approved(last)
    /\ last.note = "replaced"
    /\ approvedSprites[getCurrentPose].imageData = "Y"
    /\ \E i \in 1..Len(uiApprovedSprites) :
          uiApprovedSprites[i] = Sprite(getCurrentPose, "X")

\* C5: approveSelected() returns null and changes nothing when no option is
\* selected, the selected index has no candidate, or the selected candidate is
\* an error entry.
NothingToApprove ==
    \/ selectedOptionIndex < 0
    \/ selectedOptionIndex >= Len(generatedOptions)
    \/ "error" \in DOMAIN generatedOptions[selectedOptionIndex + 1]

C5_NothingToApproveIsNoOp ==
    [][(last'.op = "approveSelected" /\ NothingToApprove) =>
         /\ ~last'.ok
         /\ UNCHANGED <<approvedSprites, skippedPoses, cursor, generatedOptions, selectedOptionIndex>>]_vars

C5_Witness ==
    /\ last.op = "approveSelected"
    /\ ~last.ok
    /\ selectedOptionIndex >= 0
    /\ selectedOptionIndex < Len(generatedOptions)
    /\ "error" \in DOMAIN generatedOptions[selectedOptionIndex + 1]
    /\ "image" \in DOMAIN generatedOptions[1]

AdvanceIsDone == AdvanceScan(currentPhaseIndex, currentPoseIndex).done

C7_DoneIsStable ==
    [][/\ (last'.op = "advanceToNextPose" /\ ~last'.ok) =>
            /\ UNCHANGED <<cursor, candidates, engineData>>
            /\ AdvanceIsDone'
       /\ (UNCHANGED cursor /\ last'.op # "removeApproval" /\ AdvanceIsDone) => AdvanceIsDone'
      ]_vars

C7_Witness ==
    /\ last.op = "advanceToNextPose"
    /\ ~last.ok
    /\ generatedOptions # <<>>
    /\ selectedOptionIndex >= 0
    /\ Unresolved(PoseAt(0, 0))

\* C8: advanceToNextUnapprovedPose() moves the cursor to the first unresolved
\* pose of the whole hierarchy, wherever the cursor was, and returns done with
\* the cursor unchanged exactly when no pose is unresolved.
C8_FullScanFindsFirstUnresolved ==
    [][last'.op = "advanceToNextUnapprovedPose" =>
         IF UnresolvedPositions = {}
         THEN ~last'.ok /\ UNCHANGED cursor
         ELSE /\ last'.ok
              /\ cursor' = First(UnresolvedPositions)
              /\ last'.pose = PoseOf(First(UnresolvedPositions))]_vars

C8_Witness ==
    /\ last.op = "advanceToNextUnapprovedPose"
    /\ last.ok
    /\ last.note = "backward"
    /\ cursor # <<0, 0>>

C10_ReferencesExcludeCurrentNoDuplicates ==
    LET refs == getApprovedImagesForReference
    IN  /\ \A i \in 1..Len(refs) : refs[i].poseId # getCurrentPose
        /\ \A i, j \in 1..Len(refs) : refs[i].poseId = refs[j].poseId => i = j

C10_Witness ==
    /\ getApprovedImagesForReference # <<>>
    /\ MapHas(approvedSprites, getCurrentPose)
    /\ cursor = <<0, 1>>

\* C11: the reference list is the anchor sprite, when the anchor is approved
\* and is not the current pose, followed by the sprites of the approved poses
\* of the current phase below the cursor's pose index, in pose order, the
\* anchor not repeated; nothing else is in it.
RefOf(poseId) == [poseId |-> poseId, data |-> approvedSprites[poseId].imageData]

ExpectedReferences ==
    LET anchor    == hierarchy[1][1]
        preceding == SubSeq(hierarchy[currentPhaseIndex + 1], 1, currentPoseIndex)
        chosen    == SelectSeq(preceding, LAMBDA id : MapHas(approvedSprites, id) /\ id # anchor)
    IN  (IF MapHas(approvedSprites, anchor) /\ anchor # getCurrentPose
         THEN <<RefOf(anchor)>> ELSE <<>>)
        \o [i \in 1..Len(chosen) |-> RefOf(chosen[i])]

C11_ReferencesAreAnchorThenPreceding ==
    getApprovedImagesForReference = ExpectedReferences

C11_Witness ==
    /\ last.op = "getApprovedImagesForReference"
    /\ cursor = <<1, 1>>
    /\ DOMAIN approvedSprites = {"a", "b", "d", "e"}
    /\ Len(last.data) = 2
    /\ last.data[1].poseId = "a"
    /\ last.data[2].poseId = "d"
    /\ last.data[1].data # last.data[2].data

\* C12: when a batch settles after the cursor left the pose it was started
\* for, its results are not installed as the candidates of the current pose:
\* the candidate list and the selection stay as they were.
C12_StaleResultsIgnored ==
    [][last'.op = "generateCurrentPose.resolved" =>
         \A req \in inFlight \ inFlight' :
             req.pose # getCurrentPose => UNCHANGED candidates]_vars

\* C13: generateMultiple resolves to an array with one entry per issued
\* request, entry i being the result of request i when it was fulfilled and an
\* error entry when it was rejected, whatever the order of completion; as many
\* error entries as rejected requests.
C13_OneEntryPerRequestInIssueOrder ==
    resolved.status = "fulfilled" =>
        LET entries == resolved.value
            n == Len(promises)
        IN  /\ Len(entries) = n
            /\ \A i \in 1..n :
                  /\ promises[i].status = "fulfilled" => entries[i] = promises[i].value
                  /\ promises[i].status = "rejected" => DOMAIN entries[i] = {"error"}
            /\ Cardinality({i \in 1..n : "error" \in DOMAIN entries[i]})
                  = Cardinality({i \in 1..n : promises[i].status = "rejected"})

C13_Witness ==
    /\ resolved.status = "fulfilled"
    /\ Len(promises) = MaxCount
    /\ settledOrder[1] = MaxCount
    /\ settledOrder[MaxCount] = 1
    /\ Cardinality({i \in 1..MaxCount : "error" \in DOMAIN resolved.value[i]}) = 2
    /\ "image" \in DOMAIN resolved.value[2]

\* The content of slot k of the candidate list: a hole reads as no entry
Slot(options, k) == IF k >= 0 /\ k < Len(options) THEN options[k + 1] ELSE Hole

NoRequest == [kind |-> "none", slot |-> -1, pose |-> Null, prompt |-> <<>>, refs |-> <<>>]

\* The call that produced the candidate in slot k
RequestOf(options, k) ==
    IF "from" \in DOMAIN Slot(options, k) THEN Slot(options, k).from ELSE NoRequest

Slots == 0..MaxCandidates

\* A step in which the awaited regenerateOne call req settles
Settles(req) ==
    /\ req.kind = "one"
    /\ last'.op = "regenerateOne.settled"
    /\ inFlight' = inFlight \ {req}

\* C14: regenerateOne(index) changes only slot index of the candidate list, to
\* the client's result or to an error entry, and leaves the other slots, the
\* approved map, the skipped set and the cursor unchanged.
C14_RegenerateOneWritesOnlyItsSlot ==
    [][/\ last'.op = "regenerateOne" =>
            UNCHANGED <<generatedOptions, approvedSprites, skippedPoses, cursor>>
       /\ \A req \in inFlight : Settles(req) =>
            /\ req.slot >= 0 =>
                 /\ RequestOf(generatedOptions', req.slot) = req
                 /\ last'.ok => "image" \in DOMAIN Slot(generatedOptions', req.slot)
                 /\ ~last'.ok => "error" \in DOMAIN Slot(generatedOptions', req.slot)
            /\ \A k \in Slots \ {req.slot} :
                 Slot(generatedOptions', k) = Slot(generatedOptions, k)
            /\ UNCHANGED <<approvedSprites, skippedPoses, cursor>>
      ]_vars

C14_Witness ==
    /\ last.op = "regenerateOne.settled"
    /\ ~last.ok
    /\ Len(generatedOptions) = MaxCandidates
    /\ RequestOf(generatedOptions, 0).kind = "all"
    /\ "image" \in DOMAIN Slot(generatedOptions, 0)
    /\ RequestOf(generatedOptions, MaxCandidates - 1).kind = "one"
    /\ "error" \in DOMAIN Slot(generatedOptions, MaxCandidates - 1)

\* C15: of two regenerateOne calls awaited at once for distinct slots of the
\* same pose, each writes its own outcome to its own slot, in either order of
\* completion, and no other slot changes.
C15_ConcurrentRegenerationsKeepTheirSlots ==
    [][\A req \in inFlight :
         (Settles(req) /\ req.slot >= 0 /\ last'.note # "") =>
            /\ RequestOf(generatedOptions', req.slot) = req
            /\ \A other \in inFlight \ {req} : other \in inFlight'
            /\ \A k \in Slots \ {req.slot} :
                 /\ Slot(generatedOptions', k) = Slot(generatedOptions, k)
                 /\ RequestOf(generatedOptions', k).kind = "one"
                      => RequestOf(generatedOptions', k).slot = k
      ]_vars

C15_Witness ==
    /\ last.op = "regenerateOne.settled"
    /\ last.note = "second of two"
    /\ Len(generatedOptions) = 2
    /\ RequestOf(generatedOptions, 0).kind = "one"
    /\ RequestOf(generatedOptions, 0).slot = 0
    /\ RequestOf(generatedOptions, 1).kind = "one"
    /\ RequestOf(generatedOptions, 1).slot = 1
    /\ RequestOf(generatedOptions, 0).pose = RequestOf(generatedOptions, 1).pose
    /\ "image" \in DOMAIN Slot(generatedOptions, 0)
    /\ "error" \in DOMAIN Slot(generatedOptions, 1)

\* C16: the prompt stored in the record approveSelected() writes is the prompt
\* of the request that produced the approved image.
C16_ApprovedPromptIsTheRequestPrompt ==
    [][Approved(last') =>
         approvedSprites'[getCurrentPose].prompt
           = generatedOptions[selectedOptionIndex + 1].from.prompt]_vars

\* C17: the referenceImageIds stored in the record approveSelected() writes are
\* the pose ids of the references sent with the request that produced the
\* approved image, in the same order.
C17_ReferenceIdsAreTheAttachedReferences ==
    [][Approved(last') =>
         LET sent == generatedOptions[selectedOptionIndex + 1].from.refs
         IN  approvedSprites'[getCurrentPose].referenceImageIds
               = [i \in 1..Len(sent) |-> sent[i].poseId]]_vars

Last(S) == CHOOSE p \in S : \A q \in S : p = q \/ Before(q, p)

IsPosition(ph, pi) ==
    /\ ph \in 0..(Len(hierarchy) - 1)
    /\ pi \in 0..(Len(hierarchy[ph + 1]) - 1)

C19_JumpChecksBounds ==
    [][last'.op = "jumpToPose" =>
         \A phaseIndex \in PhaseArgs, poseIndex \in PoseArgs :
            \/ IF IsPosition(phaseIndex, poseIndex)
               THEN /\ last'.ok
                    /\ cursor' = <<phaseIndex, poseIndex>>
                    /\ last'.pose = PoseOf(<<phaseIndex, poseIndex>>)
               ELSE /\ ~last'.ok
                    /\ UNCHANGED <<cursor, generatedOptions, selectedOptionIndex>>
            \/ ~jumpToPose(phaseIndex, poseIndex)]_vars

C19_Witness ==
    /\ last.op = "jumpToPose"
    /\ ~last.ok
    /\ cursor = <<0, 1>>
    /\ HasImage(selectedOptionIndex)
    /\ MapHas(approvedSprites, PoseAt(1, 0))
    /\ PoseAt(0, 0) \in skippedPoses

\* C20: a successful advanceToNextPose, advanceToNextUnapprovedPose,
\* goToPreviousPose or jumpToPose, and every start of generateCurrentPose,
\* leaves the candidate list empty and the selected index -1.
Repositioned(op) ==
    /\ op.op \in {"advanceToNextPose", "advanceToNextUnapprovedPose",
                   "goToPreviousPose", "jumpToPose"}
    /\ op.ok

C20_RepositionAndGenerateClearCandidates ==
    [][(Repositioned(last') \/ (last'.op = "generateCurrentPose" /\ last'.ok)) =>
         /\ generatedOptions' = <<>>
         /\ selectedOptionIndex' = -1]_vars

C20_Witness ==
    /\ last.op = "generateCurrentPose"
    /\ last.note = "cleared"
    /\ generatedOptions = <<>>
    /\ selectedOptionIndex = -1
    /\ cursor = <<1, 0>>

\* C21: skipCurrentPose() adds the current pose id to the skipped set and
\* changes nothing else: the approved map, an approval of that pose included,
\* the cursor, the candidate list and the selection stay as they were; on a
\* pose already skipped the skipped set stays as it was.
C21_SkipOnlyAddsToSkipped ==
    [][last'.op = "skipCurrentPose" =>
         /\ skippedPoses' = skippedPoses \cup {getCurrentPose}
         /\ getCurrentPose \in skippedPoses => UNCHANGED skippedPoses
         /\ UNCHANGED <<approvedSprites, cursor, generatedOptions, selectedOptionIndex>>]_vars

C21_Witness ==
    /\ last.op = "skipCurrentPose"
    /\ last.note = "already"
    /\ MapHas(approvedSprites, getCurrentPose)
    /\ HasImage(selectedOptionIndex)
    /\ cursor = <<0, 1>>

\* C22: removeApproval(poseId) returns the record stored for poseId and leaves
\* poseId absent from the approved map, or returns null and changes nothing
\* when poseId has no approval; either way the skipped set, the cursor and
\* every other approved entry stay as they were, and a removal directly after
\* a successful approval of the same pose returns the record that approval
\* stored.
C22_RemoveReturnsAndDeletesTheRecord ==
    [][last'.op = "removeApproval" =>
         \A poseId \in RemoveIds :
            \/ /\ IF MapHas(approvedSprites, poseId)
                  THEN /\ last'.ok
                       /\ last'.data = approvedSprites[poseId]
                       /\ DOMAIN approvedSprites' = (DOMAIN approvedSprites) \ {poseId}
                  ELSE /\ ~last'.ok
                       /\ last'.data = Null
                       /\ UNCHANGED <<approvedSprites, candidates>>
               /\ \A k \in (DOMAIN approvedSprites) \ {poseId} :
                     approvedSprites'[k] = approvedSprites[k]
               /\ UNCHANGED <<skippedPoses, cursor>>
               /\ (Approved(last) /\ last.pose = poseId) =>
                     /\ last'.ok
                     /\ last'.data.imageData = last.data
            \/ ~removeApproval(poseId)]_vars

C22_Witness ==
    /\ last.op = "removeApproval"
    /\ last.ok
    /\ last.note = "just approved"
    /\ last.data.imageData = "Y"
    /\ ~MapHas(approvedSprites, getCurrentPose)
    /\ DOMAIN approvedSprites # {}
    /\ skippedPoses # {}

\* text.split(separator)
RECURSIVE Split(_, _)
Split(text, separator) ==
    IF \A i \in 1..Len(text) : text[i] # separator THEN <<text>>
    ELSE LET at == CHOOSE i \in 1..Len(text) :
                       text[i] = separator /\ \A j \in 1..(i - 1) : text[j] # separator
         IN  <<SubSeq(text, 1, at - 1)>> \o Split(SubSeq(text, at + 1, Len(text)), separator)

\* C23: for a game type with a template and a pose with a fragment,
\* buildFullPrompt returns the super-prompt, the character prompt, the
\* reference-context sentence and the pose fragment, in that order, separated
\* by blank lines, the reference-context part present exactly when the
\* reference count is above 0; without a template or without a fragment it
\* throws.
C23_FullPromptIsThePartsInOrder ==
    assembled.called =>
        LET args  == assembled.args
            super == buildSuperPrompt(args.gameTypeId, args.spriteSize)
        IN  IF args.gameTypeId \in DOMAIN SUPER_PROMPTS /\ args.pose \in DOMAIN POSE_PROMPTS
            THEN /\ ~assembled.result.throws
                 /\ LET parts == Split(assembled.result.value, BlankLine)
                    IN  /\ Len(parts) = IF args.approvedCount > 0 THEN 4 ELSE 3
                        /\ parts[1] = super.value
                        /\ parts[2] = buildCharacterPrompt(args.characterConfig)
                        /\ args.approvedCount > 0 =>
                              /\ parts[3] = buildReferenceContext(args.approvedCount)
                              /\ parts[3] # <<>>
                        /\ parts[Len(parts)] = POSE_PROMPTS[args.pose]
            ELSE assembled.result.throws

C23_Witness ==
    /\ assembled.called
    /\ ~assembled.result.throws
    /\ assembled.args.approvedCount = MaxReferences
    /\ assembled.args.characterConfig.equipment # ""
    /\ Len(Split(assembled.result.value, BlankLine)) = 4

\* C24: generateCurrentPose throws only when there is no current pose or the
\* prompt cannot be assembled; whichever of its candidate requests fail, it
\* returns normally, with one entry per request and an error entry in every
\* failed slot.  When it throws, the approved map, the skipped set and the
\* cursor are as before and isGenerating is false.
C24_OnlyPromptAssemblyThrows ==
    [][/\ last'.op = "generateCurrentPose" =>
            /\ ~last'.ok <=> (getCurrentPose = Null \/ AssembleCurrent.throws)
            /\ ~last'.ok =>
                  /\ UNCHANGED <<approvedSprites, skippedPoses, cursor>>
                  /\ ~isGenerating'
       /\ last'.op = "generateCurrentPose.resolved" =>
            /\ last'.ok
            /\ ~isGenerating'
            /\ Len(generatedOptions') = Len(promises)
            /\ \A i \in 1..Len(promises) :
                  /\ promises[i].status = "rejected" <=> "error" \in DOMAIN generatedOptions'[i]
                  /\ promises[i].status = "fulfilled" =>
                        \A f \in DOMAIN promises[i].value :
                            generatedOptions'[i][f] = promises[i].value[f]
      ]_vars

C24_Witness ==
    /\ last.op = "generateCurrentPose.resolved"
    /\ last.ok
    /\ Len(generatedOptions) = MaxCandidates
    /\ \A i \in 1..MaxCandidates : "error" \in DOMAIN generatedOptions[i]
    /\ PoseAt(0, 0) \in skippedPoses
    /\ MapHas(approvedSprites, PoseAt(1, 0))

\* C25: whenever isComplete() is true, every pose of the hierarchy is approved
\* or skipped; isComplete() is false while any pose is unresolved, and true
\* once every pose is skipped.
C25_CompleteMeansNoPoseUnresolved ==
    /\ isComplete => UnresolvedPositions = {}
    /\ skippedPoses = PosesOf(hierarchy) => isComplete

\* The hook dispatched WORKFLOW_COMPLETE in the step just taken
ReportedComplete == last.op \in {"skip", "nextPose"} /\ last.data = "WORKFLOW_COMPLETE"

\* C26: skip() and nextPose() report the workflow complete only in a state
\* where every pose of the hierarchy is approved or skipped, whatever jumps,
\* skips and approvals came before.
C26_CompleteReportedOnlyWhenAllResolved == ReportedComplete => UnresolvedPositions = {}

\* C27: after nextPose(), if some pose is neither approved nor skipped the
\* cursor is on such a pose, and the sequential browse step was taken only
\* when no pose is unresolved.
C27_NextPoseLandsOnUnresolved ==
    last.op = "nextPose" =>
        /\ UnresolvedPositions # {} => <<currentPhaseIndex, currentPoseIndex>> \in UnresolvedPositions
        /\ last.note = "browse" => UnresolvedPositions = {}

\* The approved map differs from what it was at most at poseId
OnlyEntryChanged(poseId) ==
    \A q \in ((DOMAIN approvedSprites) \cup (DOMAIN approvedSprites')) \ {poseId} :
        /\ MapHas(approvedSprites, q)
        /\ MapHas(approvedSprites', q)
        /\ approvedSprites'[q] = approvedSprites[q]

\* C28: approve() stores the sprite under the pose that was current when it
\* was invoked: the engine's call before the await and, after the downsample,
\* the engine map, the UI list and the gallery request all use that pose,
\* whatever navigation or removal happened during the await, and no entry of
\* another pose is created or overwritten.
C28_ApproveStoresUnderTheInvokedPose ==
    [][/\ (last'.op = "approve" /\ last'.ok) =>
              /\ last'.pose = getCurrentPose
              /\ MapHas(approvedSprites', getCurrentPose)
              /\ OnlyEntryChanged(getCurrentPose)
              /\ Len(approving') = Len(approving) + 1
              /\ SubSeq(approving', 1, Len(approving)) = approving
              /\ approving'[Len(approving')].poseId = getCurrentPose
              /\ approving'[Len(approving')].invokedAt = <<currentPhaseIndex, currentPoseIndex>>
       /\ last'.op = "approve.resumed" =>
              \E i \in 1..Len(approving) :
                 LET call    == approving[i]
                     invoked == PoseAt(call.invokedAt[1], call.invokedAt[2])
                     stored  == Sprite(invoked, Downsample(call.data.imageData))
                 IN  /\ approving' = WithoutCall(approving, i)
                     /\ MapHas(approvedSprites', invoked)
                     /\ approvedSprites'[invoked].imageData = stored.imageData
                     /\ OnlyEntryChanged(invoked)
                     /\ uiApprovedSprites'[Len(uiApprovedSprites')] = stored
                     /\ WithoutPose(uiApprovedSprites', invoked) = WithoutPose(uiApprovedSprites, invoked)
                     /\ Len(WithoutPose(uiApprovedSprites', invoked)) = Len(uiApprovedSprites') - 1
                     /\ saveRequests' = saveRequests \cup {stored}
      ]_vars

\* An approve() resumes after the user jumped to another pose and removed
\* the approval it had stored before the await
C28_Witness ==
    /\ last.op = "approve.resumed"
    /\ last.note = "navigated and removed"
    /\ getCurrentPose # last.pose
    /\ MapHas(approvedSprites, last.pose)

\* A generateCurrentPose call has started and not settled
CallInFlight == \E req \in inFlight : req.kind = "all"

\* C29: through the hook's generate() at most one generateCurrentPose call
\* is in flight: generate() while isGenerating is true changes nothing and
\* starts no request; isGenerating is true exactly from the start of a call
\* until it settles, and false after the call returned or threw.
C29_GenerateIsSingleFlight ==
    [][/\ \A customInstructions \in Instructions :
             (isGenerating /\ generate(customInstructions)) =>
                 UNCHANGED <<isGenerating, inFlight, lastPrompt, promises, settledOrder, resolved,
                             generatedOptions, selectedOptionIndex>>
       /\ isGenerating' <=> CallInFlight'
       /\ (~isGenerating /\ isGenerating') => (last'.op = "generateCurrentPose" /\ last'.ok)
       /\ (isGenerating /\ ~isGenerating') => last'.op = "generateCurrentPose.resolved"
       /\ last'.op = "generateCurrentPose.resolved" => (isGenerating /\ ~isGenerating')
       /\ (last'.op = "generateCurrentPose" /\ ~last'.ok) => ~isGenerating'
      ]_vars

\* generate() was pressed while a call was in flight and one of the call's
\* requests had already settled
C29_Witness ==
    /\ last.op = "generate"
    /\ last.note = "ignored"
    /\ isGenerating
    /\ CallInFlight
    /\ \E i \in 1..Len(promises) : promises[i].status # "pending"

\* C30: a pose is approved only once its batch is ready: approveSelected()
\* never succeeds while a generateCurrentPose call made for the current pose
\* is in flight, however selectOption, regenerateOne results and navigation
\* interleave with that call.
C30_ApprovedOnlyFromOptionsReady ==
    Approved(last) =>
        ~\E req \in inFlight : req.kind = "all" /\ req.pose = getCurrentPose

\* The count N the reference-context sentence of a prompt names, 0 when the
\* prompt has no such sentence
RECURSIVE CountNamed(_)
CountNamed(prompt) ==
    IF Len(prompt) < 2 THEN 0
    ELSE IF Head(prompt) = "I am providing "
         THEN CHOOSE n \in 0..Cardinality(PosesOf(hierarchy)) : ToString(n) = prompt[2]
         ELSE CountNamed(Tail(prompt))

\* C31: for every request generateCurrentPose or regenerateOne has issued,
\* the count named in the prompt's reference-context sentence is the number
\* of reference images in the body of that request, and the sentence is
\* absent exactly when the body carries no reference image.
C31_PromptCountIsAttachedCount ==
    \A req \in inFlight :
        /\ CountNamed(RequestBody(req).prompt) = Len(RequestBody(req).referenceImages)
        /\ ("I am providing " \in { req.prompt[i] : i \in 1..Len(req.prompt) })
              <=> Len(RequestBody(req).referenceImages) > 0

\* A batch request with two references is in flight together with a
\* regenerateOne request made on another pose with no reference, and the
\* cursor has moved on to a pose with one
C31_Witness ==
    \E req \in inFlight, other \in inFlight :
        /\ req.kind = "all"
        /\ Len(req.refs) = 2
        /\ Len(getApprovedImagesForReference) = 1
        /\ other.kind = "one"
        /\ other.refs = <<>>

\* No approve() or removeSprite() has a request or a continuation outstanding
GallerySettled == approving = <<>> /\ network = <<>>

\* C32: with a generation set and no gallery request failing, once every
\* request of approve() and removeSprite() has settled the poses with a row
\* in the store are the keys of the engine's approved map, whatever the
\* interleaving of approvals, re-approvals and removals and the order in
\* which the server handles the requests.
C32_StoreMatchesApprovedMap ==
    (GallerySettled /\ ~requestFailed) =>
        { row.poseId : row \in store } = DOMAIN approvedSprites

\* No hook operation is in flight: no approve() is suspended at its await and
\* no startWorkflow or resumeFromGallery is awaiting
NoHookOperationInFlight == approving = <<>> /\ starting = NoCall

ReducerMirrorsEngine ==
    /\ <<uiPhaseIndex, uiPoseIndex>> = <<currentPhaseIndex, currentPoseIndex>>
    /\ { uiApprovedSprites[i].poseId : i \in 1..Len(uiApprovedSprites) } = DOMAIN approvedSprites
    /\ { uiSkippedPoseIds[i] : i \in 1..Len(uiSkippedPoseIds) } = skippedPoses

\* C33: whenever no hook operation is in flight, the reducer's cursor, the
\* pose ids of its approved list and its skipped ids are those of the engine.
C33_ReducerMirrorsEngine == NoHookOperationInFlight => ReducerMirrorsEngine

====
